---------------------------- MODULE Spec2Model ----------------------------
(***************************************************************************)
(* Model of the photogrammetry (light SfM) jobs of the Antares Studio      *)
(* repository.                                                             *)
(*                                                                         *)
(*   RW   ReconstructionWorker.run       (antares_studio_final.py)         *)
(*   P3D  Photogrammetry3DThread.run     (antares_main_improved.py)        *)
(*   TR   TaskRunnable.run running run_pipeline and reconstruct_sparse     *)
(*        (core/task_manager.py, pipeline_context.py, reconstruction.py)   *)
(*   V2   _ReconThread.run_operation     (AntaresStudiov2/ui/threads.py)   *)
(*                                                                         *)
(* A job is a sequential method running on a worker thread; the caller     *)
(* thread can set the cancellation flag between any two steps of the job.  *)
(* Pixel data, descriptors and 3D coordinates are not represented: what a  *)
(* library call returns (an image or None, a keypoint count, the number of *)
(* ratio-test survivors, an essential matrix or None, a relative pose, the *)
(* number of points that survive filtering, a write that succeeds or       *)
(* raises) is an input drawn from a small set at the step that makes the   *)
(* call.  Poses are elements of the group of planar rigid motions with     *)
(* quarter-turn rotations, a subgroup of the 3x3 / 3x1 poses of the code,  *)
(* so that composition is computed, not assumed.                           *)
(***************************************************************************)
EXTENDS Integers, Sequences, FiniteSets, TLC

VARIABLES
    impl,        \* which job implementation this run executes
    nPaths,      \* len(image_paths)
    minMatches,  \* configured min_matches
    wrapMatch,   \* configured wrap_match
    sweep,       \* the scene: relative pose between consecutive views
    pc,          \* position of the job in its run method
    cancel,      \* the cancellation flag (BaseWorker._cancel)
    cancelAt,    \* history: pc at which cancellation was requested, or "none"
    idx,         \* loop index of the current stage
    nImgs,       \* len(imgs): images decoded so far
    feats,       \* keypoint count per decoded image (FeaturePack.xy.shape[0])
    matches,     \* recorded Matches: sequence of [i, j, n]
    tried,       \* history: pairs handed to the matcher
    estimated,   \* history: pairs handed to the essential-matrix estimator
    poses,       \* pose map: image index -> [R, t]
    rel,         \* output of the last recoverPose call, or NoRel
    globalPose,  \* R_global, t_global of reconstruct_sparse
    nPts,        \* points surviving triangulation and filtering
    files,       \* files present in the output directory
    output,      \* the path the job is about to report as its result
    cancelSeen,  \* history: a cancellation check of the job found the flag set
    meshFailed,  \* history: the mesh could not be built, or a mesh write failed
    progress,    \* last percentage sent on the progress channel
    startedLog,  \* payloads sent on the started channel
    errorLog,    \* titles sent on the error channel
    resultLog,   \* payloads sent on the result channel
    finishedLog, \* payloads sent on the finished channel
    raised,      \* history: the fatal condition met by this run, or "none"
    knn,         \* matcher.knnMatch(des1, des2, k=2): rows of distances
    goodRows,    \* "good": the rows the ratio test has accepted
    cloud,       \* pts before the outlier filter: positions on a line
    kept,        \* indices of the points the outlier filter retains
    mode,        \* the mode a detector is chosen for
    siftOk,      \* cv2.SIFT_create is there and works
    needSpeed,   \* need_speed of choose_feature_algo
    algo,        \* the detector chosen
    soundsEnabled,         \* NotificationManager.sounds_enabled
    notificationsEnabled,  \* NotificationManager.notifications_enabled
    toastAvailable,        \* NotificationManager._toast_available
    callbacks,             \* NotificationManager._callbacks
    sent,                  \* the notify calls made so far
    events,                \* what the notify calls did, in order
    disk,        \* the project folders under ProjectManager.projects_dir
    made,        \* the projects create_project has returned
    gone,        \* the ids delete_project has returned True for
    answer,      \* the last call on the ProjectManager and what it returned
    root,        \* the parts of the path of the project directory
    present,     \* the project directory exists
    tree,        \* the files of the project directory, as relative paths
    clock,       \* the second datetime.now() falls in
    zips,        \* the backup files of the project, by the time in their name
    restored,    \* what the last restore_backup call returned and extracted
    backupLog,   \* history: the seconds of the create_backup calls that
                 \* returned a path, and whether one returned None
    opCall,      \* the arguments of a SafeOperation.execute call
    opError,     \* the exception execute has caught, or NoError
    opResult,    \* the OperationResult execute returns, or NoResult
    opRaised,    \* the exception that leaves execute, or NoError
    opLog,       \* history: the callbacks execute has called, in order
    dlTotal,     \* "total" of download_scan
    dlWorkers,   \* max_workers of the thread pool of download_scan
    dlStop,      \* what stop_flag() returns
    dlTask,      \* where each _download_one call is, or how it has ended
    dlDisk,      \* the numbers of the img_NNNN.jpg files in out_dir
    dlFiles,     \* "files" of download_scan
    dlLog,       \* the futures as_completed has handed over, in order
    bp,          \* a BatchProcessor: its queue, flags and job threads, and
                 \* history of what it emitted and what cancel() found
    ctStatus,      \* CancellableThread._status
    ctIsCancelled, \* CancellableThread._is_cancelled
    ctIsPaused,    \* CancellableThread._is_paused
    ctEmitted,     \* the last value sent on status_changed, or ""
    ctCall,        \* where the safe_run call is, or how it has ended
    ctFunc,        \* the callable safe_run was called with
    ctResult,      \* the OperationResult safe_run has returned, or NoResult
    ctErrorLog,    \* the messages sent on the error signal
    pfTotal,     \* "total" of extract_features_parallel
    pfWorkers,   \* the threads Parallel(n_jobs=n_jobs) runs wrap on
    pfDone,      \* "done", the counter the wrap calls share
    pfTask,      \* where each wrap call is, and the value it holds
    pfProgress   \* the values progress_cb has received, in order

\* the variables of the ratio test
matcher == << knn, goodRows >>

\* the variables of the outlier filter
filter == << cloud, kept >>

\* the variables of the detector choice
selector == << mode, siftOk, needSpeed, algo >>

\* the variables of a NotificationManager and of its caller
notifier ==
    << soundsEnabled, notificationsEnabled, toastAvailable, callbacks, sent,
       events >>

\* the variables of a ProjectManager and of its caller
store == << disk, made, gone, answer >>

\* the variables of a BackupManager, of the project directory it backs up
\* and of its caller
backup == << root, present, tree, clock, zips, restored, backupLog >>

\* the variables of a SafeOperation.execute call
safeOp == << opCall, opError, opResult, opRaised, opLog >>

\* the variables of a download_scan call
download ==
    << dlTotal, dlWorkers, dlStop, dlTask, dlDisk, dlFiles, dlLog >>

\* the variables of a BatchProcessor
batch == << bp >>

\* the variables of a CancellableThread
cthread ==
    << ctStatus, ctIsCancelled, ctIsPaused, ctEmitted, ctCall, ctFunc,
       ctResult, ctErrorLog >>

\* the variables of an extract_features_parallel call
parallel == << pfTotal, pfWorkers, pfDone, pfTask, pfProgress >>

\* the variables of the components outside the reconstruction jobs
others ==
    << matcher, filter, selector, notifier, store, backup, safeOp, download,
       batch, cthread, parallel >>


\* the variables of a reconstruction job besides impl, pc and idx
job == << nPaths, minMatches, wrapMatch, sweep, cancel, cancelAt, nImgs,
          feats, matches, tried, estimated, poses, rel, globalPose, nPts,
          files, output, cancelSeen, meshFailed, progress, startedLog,
          errorLog, resultLog, finishedLog, raised >>


vars == << impl, pc, idx, job, others >>

config == << impl, nPaths, minMatches, wrapMatch, sweep >>
geometry == << nImgs, feats, matches, tried, estimated, poses, rel,
               globalPose, nPts >>
channels == << startedLog, errorLog, resultLog, finishedLog >>
history == << cancelAt, cancelSeen, meshFailed >>

----------------------------------------------------------------------------
(* Bounds of the model                                                     *)

\* a job is handed at most MinImages + ExtraPaths image paths
ExtraPaths == 0
\* an image yields no keypoint only while fewer than MaxBlank images did, or
\* while no image has yielded any
MaxBlank == 0
\* a Photogrammetry3DThread is handed at most MaxViews image paths
MaxViews == 3

----------------------------------------------------------------------------
(* Program constants                                                       *)

\* ReconstructionWorker.run: "if len(self.image_paths) < 8"
MinImages == 8
\* ReconstructionWorker.run: "if len(matches) < 2"
MinPairs == 2
\* ReconstructionWorker.run: "if len(poses) < 2"
MinPoses == 2
\* ReconstructionWorker.run: "if pts.shape[0] < 200"
MinPoints == 200
\* spn_matches.setValue(80)
DefaultMinMatches == 80
\* quality_settings['medium']['matches']
MediumMatches == 100
\* reconstruct_sparse: "if len(good) < 12"
MinGood == 12
\* reconstruct_sparse: "if len(pts1i) < 10"
MinInliers == 10
\* _ReconThread.run_operation: "if len(images) < 3"
StubMinImages == 3

----------------------------------------------------------------------------
(* Poses                                                                   *)

NoRel == [R |-> -1, t |-> <<0, 0>>]

\* np.eye(3), np.zeros((3, 1))
IdentityPose == [R |-> 0, t |-> <<0, 0>>]

\* R @ v for a rotation by r quarter turns
Rot(r, v) ==
    CASE r = 0 -> v
      [] r = 1 -> << -v[2], v[1] >>
      [] r = 2 -> << -v[1], -v[2] >>
      [] r = 3 -> << v[2], -v[1] >>

\* R_j = R_rel @ R_i ; t_j = R_rel @ t_i + t_rel
Compose(r, p) ==
    [R |-> (r.R + p.R) % 4,
     t |-> << Rot(r.R, p.t)[1] + r.t[1], Rot(r.R, p.t)[2] + r.t[2] >>]

\* relative poses of two consecutive views that cv2.recoverPose can return: a
\* rotation and a unit translation.  The images of a run come from one sweep
\* with a constant step, so every pair of a run has the same relative pose.
RelPoses == { [R |-> 1, t |-> <<1, 0>>], [R |-> 0, t |-> <<0, 1>>] }

\* R.T, -R.T @ t
Inverse(r) ==
    [R |-> (4 - r.R) % 4,
     t |-> << -Rot((4 - r.R) % 4, r.t)[1], -Rot((4 - r.R) % 4, r.t)[2] >>]

RECURSIVE PosePower(_, _)
PosePower(r, k) == IF k = 0 THEN IdentityPose ELSE Compose(r, PosePower(r, k - 1))

----------------------------------------------------------------------------
(* Inputs of a run                                                         *)

\* lengths of image_paths a run is started with
PathCounts == {3, MinImages - 1} \cup (MinImages .. MinImages + ExtraPaths)

\* what cv2.recoverPose returns for the views i < j of the sweep: j - i steps
RelBetween(i, j) == PosePower(sweep, j - i)

\* number of images without keypoints among the first ones
Blank(fs) == Cardinality({k \in DOMAIN fs : fs[k] = 0})

\* keypoints a detector finds in the next image: none, or some
KeypointCounts(fs) ==
    {500} \cup (IF Blank(fs) < MaxBlank \/ Blank(fs) = Len(fs) THEN {0} ELSE {})

\* ratio-test survivors of one pair: none when a descriptor set is empty
\* (_match_pair returns []), otherwise just below or at the threshold
GoodCounts(a, b) ==
    IF a = 0 \/ b = 0 THEN {0} ELSE {minMatches - 1, minMatches + 40}

\* points left by the finite filter and the 0.98 quantile cut out of `total`
\* triangulated points: the cut keeps dist < quantile, so it always drops the
\* farthest point
PointCounts(total) ==
    {k \in {0, MinPoints - 1, MinPoints, total - 1} : 0 <= k /\ k < total} \cup
    (IF total = 0 THEN {0} ELSE {})

----------------------------------------------------------------------------
(* Helpers                                                                 *)

RECURSIVE SumSeq(_)
SumSeq(s) == IF s = << >> THEN 0 ELSE Head(s) + SumSeq(Tail(s))

\* pairs = [(i, i + 1) for i in range(n - 1)] (+ (n - 1, 0) if wrap and n >= 3)
AdjacentPairs(n) ==
    [k \in 1 .. (IF n >= 1 THEN n - 1 ELSE 0) |-> <<k - 1, k>>] \o
    (IF wrapMatch /\ n >= 3 THEN << <<n - 1, 0>> >> ELSE << >>)

\* match_map = {(i, j): ms for i, j, ms in matches}
MatchKeys == { <<matches[k].i, matches[k].j>> : k \in DOMAIN matches }

\* poses[j] = value (dict assignment: insert or overwrite)
SetPose(ps, j, value) ==
    [k \in DOMAIN ps \cup {j} |-> IF k = j THEN value ELSE ps[k]]

\* number of correspondences of the matches whose two poses are known
Triangulated ==
    SumSeq([k \in DOMAIN matches |->
              IF matches[k].i \in DOMAIN poses /\ matches[k].j \in DOMAIN poses
              THEN matches[k].n ELSE 0])

----------------------------------------------------------------------------
(* The caller                                                              *)

\* stage of the pipeline a position of the job belongs to
StageOf(p) ==
    CASE p = "idle" -> "Idle"
      [] p = "load" -> "Loading"
      [] p = "extract" -> "ExtractingFeatures"
      [] p = "match" -> "Matching"
      [] p \in {"pose_init", "pose"} -> "EstimatingPoses"
      [] p = "pairs" -> "Matching"
      [] p \in {"triangulate", "points_gate", "cloud"} -> "Triangulating"
      [] p \in {"write_pc", "mesh", "write_mesh", "emit", "export", "build"}
           -> "Exporting"
      [] p = "finish" -> "Exporting"
      [] OTHER -> "Terminal"

\* BaseWorker.cancel, TaskManager.cancel and CancellableThread.cancel, called
\* from the caller's thread while the job runs
Cancel ==
    /\ impl \in {"RW", "TR", "V2"}
    /\ pc \notin {"idle", "finally", "done"}
    /\ ~cancel
    /\ cancel' = TRUE
    /\ cancelAt' = IF StageOf(pc) = "Exporting" THEN "Exporting" ELSE "before"
    /\ UNCHANGED << others, config, pc, idx, geometry, files, output, cancelSeen,
                    meshFailed, progress, channels, raised >>

----------------------------------------------------------------------------
(* ReconstructionWorker.run                                                *)

\* faulty variant of RW_Fail: the handler swallows the exception without
\* emitting on the error channel
RW_FailSilently(title) ==
    /\ raised' = title
    /\ pc' = "finally"
    /\ UNCHANGED channels

\* "raise UserFacingError(title, ...)" caught by "except UserFacingError as e:
\* self.signals.error.emit(e.title, ...)", and any other exception caught by
\* "except Exception as e: self.signals.error.emit('3D Pipeline Hatasi', ...)"
RW_Fail(title) ==
    /\ errorLog' = Append(errorLog, title)
    /\ raised' = title
    /\ pc' = "finally"
    /\ UNCHANGED << startedLog, resultLog, finishedLog >>

\* "len(self.image_paths) < 8" and "len(imgs) < 8"
RW_TooFewImages(n) == n < MinImages

\* "len(matches) < 2"
RW_TooFewPairs(n) == n < MinPairs

\* "len(poses) < 2"
RW_TooFewPoses(n) == n < MinPoses

\* faulty variant of RW_TooFewPoints: the comparison is off by one
RW_TooFewPointsOffByOne(n) == n < MinPoints - 1

\* "pts.shape[0] < 200"
RW_TooFewPoints(n) == n < MinPoints

\* the try block up to the first gate
RW_Begin ==
    /\ impl = "RW" /\ pc = "idle"
    /\ progress' = 3
    /\ IF RW_TooFewImages(nPaths)
       THEN RW_Fail("Yetersiz Goruntu") /\ idx' = idx
       ELSE /\ pc' = "load" /\ idx' = 0
            /\ UNCHANGED << channels, raised >>
    /\ UNCHANGED << others, config, cancel, history, geometry, files, output >>

\* one iteration of "for p in self.image_paths": cv2.imread returns an image
\* or None
RW_Load ==
    /\ impl = "RW" /\ pc = "load" /\ idx < nPaths
    /\ \E ok \in BOOLEAN : nImgs' = IF ok THEN nImgs + 1 ELSE nImgs
    /\ idx' = idx + 1
    /\ UNCHANGED << others, config, pc, cancel, history, feats, matches, tried,
                    estimated, poses, rel, globalPose, nPts, files, output,
                    progress,
                    channels, raised >>

\* "if len(imgs) < 8: raise ..." after the loading loop
RW_LoadGate ==
    /\ impl = "RW" /\ pc = "load" /\ idx = nPaths
    /\ IF RW_TooFewImages(nImgs)
       THEN RW_Fail("Goruntu Okuma Hatasi") /\ UNCHANGED << idx, progress >>
       ELSE /\ progress' = 10 /\ pc' = "extract" /\ idx' = 0
            /\ UNCHANGED << channels, raised >>
    /\ UNCHANGED << others, config, cancel, history, geometry, files, output >>

\* _extract_features._one for one image: the image is read again and the
\* detector returns its keypoints, possibly none
RW_Extract ==
    /\ impl = "RW" /\ pc = "extract" /\ idx < nImgs
    /\ \E k \in KeypointCounts(feats) : feats' = Append(feats, k)
    /\ idx' = idx + 1
    /\ UNCHANGED << others, config, pc, cancel, history, nImgs, matches, tried,
                    estimated, poses, rel, globalPose, nPts, files, output,
                    progress,
                    channels, raised >>

\* faulty variant of RW_ExtractGate: one image without keypoints ends the job
RW_ExtractGateStrict ==
    /\ impl = "RW" /\ pc = "extract" /\ idx = nImgs
    /\ IF \E k \in DOMAIN feats : feats[k] = 0
       THEN RW_Fail("Feature Bulunamadi") /\ UNCHANGED << idx, progress >>
       ELSE /\ progress' = 35 /\ pc' = "match" /\ idx' = 1
            /\ UNCHANGED << channels, raised >>
    /\ UNCHANGED << others, config, cancel, history, geometry, files, output >>

\* "if sum(fp.xy.shape[0] for fp in feats) == 0: raise ..."
RW_ExtractGate ==
    /\ impl = "RW" /\ pc = "extract" /\ idx = nImgs
    /\ IF SumSeq(feats) = 0
       THEN RW_Fail("Feature Bulunamadi") /\ UNCHANGED << idx, progress >>
       ELSE /\ progress' = 35 /\ pc' = "match" /\ idx' = 1
            /\ UNCHANGED << channels, raised >>
    /\ UNCHANGED << others, config, cancel, history, geometry, files, output >>

\* faulty variant of RW_SkipPair: a pair that cannot be used ends the job
RW_SkipPairAborts ==
    /\ RW_Fail("3D Pipeline Hatasi")
    /\ idx' = idx

\* what the two pair loops do with a pair they give up: the else branch of
\* "if len(ms) >= self.min_matches" only logs, "if E is None: continue" goes
\* to the next pair; nothing is raised and nothing is emitted
RW_SkipPair ==
    /\ pc' = pc /\ idx' = idx + 1
    /\ UNCHANGED << channels, raised >>

\* faulty variant of RW_Accepts: the threshold is one too low
RW_AcceptsOneLess(good) == good >= minMatches - 1

\* "if len(ms) >= self.min_matches"
RW_Accepts(good) == good >= minMatches

\* one iteration of the loop of _match_adjacent that passes the
\* is_cancelled() check
RW_Match ==
    /\ impl = "RW" /\ pc = "match"
    /\ idx <= Len(AdjacentPairs(Len(feats))) /\ ~cancel
    /\ LET pair == AdjacentPairs(Len(feats))[idx]
       IN  /\ tried' = tried \cup {pair}
           /\ \E good \in GoodCounts(feats[pair[1] + 1], feats[pair[2] + 1]) :
                IF RW_Accepts(good)
                THEN /\ matches' = Append(matches,
                                 [i |-> pair[1], j |-> pair[2], n |-> good])
                     /\ pc' = pc /\ idx' = idx + 1
                     /\ UNCHANGED << channels, raised >>
                ELSE /\ matches' = matches
                     /\ RW_SkipPair
    /\ UNCHANGED << others, config, cancel, history, nImgs, feats, estimated,
                    poses, rel, globalPose, nPts, files, output, progress >>

\* the end of _match_adjacent (the pairs are exhausted, or is_cancelled()
\* breaks the loop) and "if len(matches) < 2: raise ..."
RW_MatchGate ==
    /\ impl = "RW" /\ pc = "match"
    /\ idx > Len(AdjacentPairs(Len(feats))) \/ cancel
    /\ cancelSeen' = (idx <= Len(AdjacentPairs(Len(feats))))
    /\ IF RW_TooFewPairs(Len(matches))
       THEN RW_Fail("Eslestirme Basarisiz")
            /\ UNCHANGED << idx, progress >>
       ELSE /\ progress' = 55 /\ pc' = "pose_init" /\ idx' = 0
            /\ UNCHANGED << channels, raised >>
    /\ UNCHANGED << others, config, cancel, cancelAt, meshFailed, geometry, files,
                    output >>

\* the head of _estimate_pose_chain: the intrinsics are derived from the
\* first image and "poses = {0: (np.eye(3), np.zeros((3, 1)))}"
RW_PoseInit ==
    /\ impl = "RW" /\ pc = "pose_init"
    /\ poses' = (0 :> IdentityPose)
    /\ pc' = "pose" /\ idx' = 1
    /\ UNCHANGED << others, config, cancel, history, nImgs, feats, matches, tried,
                    estimated, rel, globalPose, nPts, files, output, progress,
                    channels, raised >>

\* the pose the forward chain gives image j from the pose of image i
RW_ChainedPose(r, i) == Compose(r, poses[i])

\* faulty variant of RW_Chain: the test "if i in poses" is left out, and an
\* image whose predecessor has no pose starts a chain of its own
RW_ChainUnchecked(r, i, j) ==
    SetPose(poses, j, IF i \in DOMAIN poses THEN RW_ChainedPose(r, i) ELSE r)

\* faulty variant of RW_Chain: the chained pose is stored under i instead of j
RW_ChainOverwrites(r, i, j) ==
    IF i \in DOMAIN poses THEN SetPose(poses, i, RW_ChainedPose(r, i)) ELSE poses

\* the pose map after the pair (i, j) got the relative pose r
RW_Chain(r, i, j) ==
    IF i \in DOMAIN poses THEN SetPose(poses, j, RW_ChainedPose(r, i)) ELSE poses

\* one iteration of "for j in range(1, len(feats))" of _estimate_pose_chain
RW_Pose ==
    /\ impl = "RW" /\ pc = "pose" /\ idx < Len(feats)
    /\ LET j == idx
           i == idx - 1
       IN  IF <<i, j>> \notin MatchKeys
           THEN \* "if key not in match_map: continue"
                /\ rel' = NoRel
                /\ UNCHANGED << estimated, poses >>
                /\ pc' = pc /\ idx' = idx + 1
                /\ UNCHANGED << channels, raised >>
           ELSE /\ estimated' = estimated \cup {<<i, j>>}
                /\ \/ \* "if E is None: continue"
                      /\ rel' = NoRel
                      /\ poses' = poses
                      /\ RW_SkipPair
                   \/ \* cv2.recoverPose(E, pts1, pts2, K)
                      /\ rel' = RelBetween(i, j)
                      /\ poses' = RW_Chain(RelBetween(i, j), i, j)
                      /\ pc' = pc /\ idx' = idx + 1
                      /\ UNCHANGED << channels, raised >>
    /\ UNCHANGED << others, config, cancel, history, nImgs, feats, matches,
                    tried, globalPose, nPts, files, output, progress >>

\* the end of _estimate_pose_chain and "if len(poses) < 2: raise ..."
RW_PoseGate ==
    /\ impl = "RW" /\ pc = "pose" /\ idx = Len(feats)
    /\ IF RW_TooFewPoses(Cardinality(DOMAIN poses))
       THEN RW_Fail("Pose Hesabi Basarisiz") /\ UNCHANGED progress
       ELSE /\ progress' = 70 /\ pc' = "triangulate"
            /\ UNCHANGED << channels, raised >>
    /\ UNCHANGED << others, config, cancel, history, idx, geometry, files, output >>

\* _triangulate_sparse: every match whose two poses are known is triangulated,
\* then the non-finite points and the points beyond the 0.98 quantile go
RW_Triangulate ==
    /\ impl = "RW" /\ pc = "triangulate"
    /\ \E k \in PointCounts(Triangulated) : nPts' = k
    /\ pc' = "points_gate"
    /\ UNCHANGED << others, config, cancel, history, idx, nImgs, feats, matches,
                    tried, estimated, poses, rel, globalPose, files, output,
                    progress, channels, raised >>

\* "if pts.shape[0] < 200: raise ..."
RW_PointsGate ==
    /\ impl = "RW" /\ pc = "points_gate"
    /\ IF RW_TooFewPoints(nPts)
       THEN RW_Fail("Nokta Bulutu Zayif") /\ UNCHANGED progress
       ELSE /\ progress' = 82 /\ pc' = "write_pc"
            /\ UNCHANGED << channels, raised >>
    /\ UNCHANGED << others, config, cancel, history, idx, geometry, files, output >>

\* os.path.join(out_dir, "point_cloud.ply")
PointCloudFile == "point_cloud.ply"

\* mesh.ply, then "OBJ + STL", in the order _export_outputs writes them
MeshFiles == << "mesh.ply", "mesh.obj", "mesh.stl" >>

\* _export_outputs, step 1: _write_ply_points opens the file and writes the
\* points; an OSError leaves no file (open failed) or a truncated one, and
\* reaches "except Exception" of run
RW_WritePointCloud ==
    /\ impl = "RW" /\ pc = "write_pc"
    /\ \/ /\ files' = files \cup {PointCloudFile}
          /\ pc' = "mesh"
          /\ UNCHANGED << channels, raised >>
       \/ /\ files' \in {files, files \cup {PointCloudFile}}
          /\ RW_Fail("3D Pipeline Hatasi")
    /\ UNCHANGED << others, config, cancel, history, idx, geometry, output, progress >>

\* the path _export_outputs returns when its mesh part raises:
\* "except Exception as e: ... return ply_pc"
RW_MeshFallback == PointCloudFile

\* faulty variant of RW_Mesh: the point cloud is written again once the mesh
\* has been attempted
RW_MeshThenPointCloud ==
    /\ impl = "RW" /\ pc = "mesh"
    /\ pc' = "write_pc" /\ meshFailed' = TRUE
    /\ UNCHANGED << others, config, cancel, cancelAt, cancelSeen, idx, geometry,
                    files, output, progress, channels, raised >>

\* _export_outputs, step 2 up to the first mesh write: import open3d, build
\* the cloud, Poisson reconstruction and cleanup; any exception is logged
RW_Mesh ==
    /\ impl = "RW" /\ pc = "mesh"
    /\ \/ /\ pc' = "write_mesh" /\ idx' = 1 /\ output' = output
          /\ meshFailed' = meshFailed
       \/ /\ pc' = "emit" /\ idx' = idx /\ output' = RW_MeshFallback
          /\ meshFailed' = TRUE
    /\ UNCHANGED << others, config, cancel, cancelAt, cancelSeen, geometry, files, progress,
                    channels, raised >>

\* one o3d.io.write_triangle_mesh call: the file is written, or the call
\* returns False without writing (the return value is not looked at), or it
\* raises; after the third file "return mesh_ply"
RW_WriteMesh ==
    /\ impl = "RW" /\ pc = "write_mesh" /\ idx <= Len(MeshFiles)
    /\ \/ /\ \/ files' = files \cup {MeshFiles[idx]} /\ meshFailed' = meshFailed
             \/ files' = files /\ meshFailed' = TRUE
          /\ idx' = idx + 1
          /\ IF idx = Len(MeshFiles)
             THEN pc' = "emit" /\ output' = MeshFiles[1]
             ELSE pc' = pc /\ output' = output
       \/ /\ files' = files /\ idx' = idx /\ meshFailed' = TRUE
          /\ pc' = "emit" /\ output' = RW_MeshFallback
    /\ UNCHANGED << others, config, cancel, cancelAt, cancelSeen, geometry, progress, channels,
                    raised >>

\* "self.signals.progress.emit(100); self.signals.result.emit(output_main)"
RW_Emit ==
    /\ impl = "RW" /\ pc = "emit"
    /\ progress' = 100
    /\ resultLog' = Append(resultLog, output)
    /\ pc' = "finally"
    /\ UNCHANGED << others, config, cancel, history, idx, geometry, files, output,
                    startedLog, errorLog, finishedLog, raised >>

\* an exception no gate raises (cv2.error, MemoryError, ...) inside a stage
\* of the try block
RW_Unexpected ==
    /\ impl = "RW"
    /\ pc \in {"load", "extract", "match", "pose_init", "pose", "triangulate"}
    /\ RW_Fail("3D Pipeline Hatasi")
    /\ UNCHANGED << others, config, cancel, history, idx, geometry, files, output,
                    progress >>

\* "finally: gc.collect(); self.signals.finished.emit()"
RW_Finally ==
    /\ impl = "RW" /\ pc = "finally"
    /\ finishedLog' = Append(finishedLog, "")
    /\ pc' = "done"
    /\ UNCHANGED << others, config, cancel, history, idx, geometry, files, output,
                    progress, startedLog, errorLog, resultLog, raised >>

\* the variables of a job before its run method starts
JobFresh ==
    /\ cancel = FALSE /\ cancelAt = "none"
    /\ nImgs = 0 /\ feats = << >> /\ matches = << >>
    /\ tried = {} /\ estimated = {} /\ poses = << >> /\ rel = NoRel
    /\ globalPose = IdentityPose
    /\ nPts = 0 /\ files = {} /\ output = "" /\ meshFailed = FALSE
    /\ cancelSeen = FALSE /\ progress = 0
    /\ startedLog = << >> /\ errorLog = << >> /\ resultLog = << >> /\ finishedLog = << >>
    /\ raised = "none"

\* the state a job is constructed in, before its run method starts
Fresh == pc = "idle" /\ idx = 0 /\ JobFresh

\* no reconstruction job exists
JobIdle ==
    /\ nPaths = 0 /\ minMatches = 0 /\ wrapMatch = FALSE
    /\ sweep = IdentityPose
    /\ JobFresh

\* no ratio test is running
MatcherIdle == knn = << >> /\ goodRows = << >>

\* no outlier filter is running
FilterIdle == cloud = << >> /\ kept = {}

\* a string: its letters in lower case, how it is cased, and where it has
\* white space around it
Spelt(name, casing, padding) == [name |-> name, casing |-> casing, pad |-> padding]

\* a string literal of the source: lower case, no white space around it
Str(name) == Spelt(name, "lower", "none")

\* the empty string
NoStr == Str("")

\* no detector is being chosen
SelectorIdle ==
    mode = NoStr /\ siftOk = FALSE /\ needSpeed = FALSE /\ algo = ""

\* class NotificationType, as far as the callers of notify use it
NotificationTypes == {"success", "error"}

\* no entry for a type in the dict _callbacks
NoCallback == "none"

\* a NotificationManager as __init__ leaves it, on a platform without toasts
NotifierIdle ==
    /\ soundsEnabled = TRUE /\ notificationsEnabled = TRUE
    /\ toastAvailable = FALSE
    /\ callbacks = [t \in NotificationTypes |-> NoCallback]
    /\ sent = << >> /\ events = << >>

\* what a call on a ProjectManager returned: the projects it returned, and
\* for delete_project its truth value
Answer(op, id, value, ok) == [op |-> op, id |-> id, value |-> value, ok |-> ok]

\* a ProjectManager on an empty projects_dir, before any call
StoreIdle ==
    /\ disk = {} /\ made = {} /\ gone = {}
    /\ answer = Answer("none", 0, << >>, FALSE)

\* what a restore_backup call returned and did: whether it returned a
\* directory, the backup it read, the files the project directory had when
\* that backup was taken, whether the backup was to hold the output files,
\* and the files the restore directory holds
Restored(ok, from, seen, full, got) ==
    [ok |-> ok, from |-> from, seen |-> seen, full |-> full, files |-> got]

\* no create_backup call has been made
NoBackupLog == [ok |-> {}, failed |-> FALSE]

\* a BackupManager with no backup, and no project directory
BackupIdle ==
    /\ root = << >> /\ present = FALSE /\ tree = {}
    /\ clock = 0 /\ zips = {}
    /\ restored = Restored(FALSE, 0, {}, FALSE, {})
    /\ backupLog = NoBackupLog

\* nothing is raised or caught
NoError == [kind |-> "none", message |-> ""]

\* no OperationResult yet
NoResult == [success |-> FALSE, result |-> "", error_message |-> "",
             status |-> "none"]

\* a callable: whether it returns or raises, and what
Callable(does, kind, value) == [does |-> does, kind |-> kind, value |-> value]

\* None, passed for a callback
NoCallable == Callable("absent", "none", "")

\* no SafeOperation.execute call is under way
SafeOpIdle ==
    /\ opCall = [func |-> NoCallable, error_callback |-> NoCallable,
                 finally_callback |-> NoCallable, default_return |-> ""]
    /\ opError = NoError /\ opResult = NoResult /\ opRaised = NoError
    /\ opLog = << >>

\* no download_scan call is under way
DownloadIdle ==
    /\ dlTotal = 0 /\ dlWorkers = 0 /\ dlStop = FALSE
    /\ dlTask = << >> /\ dlDisk = {} /\ dlFiles = << >> /\ dlLog = << >>

\* BatchProcessor.__init__: an empty queue, not running, not paused, no
\* current thread; nothing emitted and nothing cancelled so far
NewBatchProcessor ==
    [jobs |-> << >>, running |-> FALSE, paused |-> FALSE, current |-> 0,
     allCompleted |-> [emitted |-> FALSE, busy |-> {}],
     cancelled |-> {}, reported |-> {}, late |-> {}]

\* no BatchProcessor is in use
BatchIdle == bp = NewBatchProcessor

\* CancellableThread.__init__, and no safe_run call yet
NewCancellableThread ==
    /\ ctStatus = "pending" /\ ctIsCancelled = FALSE /\ ctIsPaused = FALSE
    /\ ctEmitted = "" /\ ctCall = "none" /\ ctFunc = NoCallable
    /\ ctResult = NoResult /\ ctErrorLog = << >>

\* no CancellableThread is in use
CThreadIdle == NewCancellableThread

\* no extract_features_parallel call is under way
ParallelIdle ==
    /\ pfTotal = 0 /\ pfWorkers = 0 /\ pfDone = 0
    /\ pfTask = << >> /\ pfProgress = << >>

\* the components outside the reconstruction jobs are not in use
OthersIdle ==
    /\ MatcherIdle /\ FilterIdle /\ SelectorIdle /\ NotifierIdle
    /\ StoreIdle /\ BackupIdle /\ SafeOpIdle /\ DownloadIdle
    /\ BatchIdle /\ CThreadIdle /\ ParallelIdle


\* ReconstructionWorker.__init__
InitRW ==
    /\ impl = "RW"
    /\ nPaths \in PathCounts
    /\ minMatches = DefaultMinMatches
    /\ wrapMatch \in BOOLEAN
    /\ sweep \in RelPoses
    /\ Fresh /\ OthersIdle

\* the steps of ReconstructionWorker.run
StepsRW ==
    \/ RW_Begin \/ RW_Load \/ RW_LoadGate \/ RW_Extract \/ RW_ExtractGate
    \/ RW_Match \/ RW_MatchGate \/ RW_PoseInit \/ RW_Pose \/ RW_PoseGate
    \/ RW_Triangulate \/ RW_PointsGate \/ RW_WritePointCloud \/ RW_Mesh
    \/ RW_WriteMesh \/ RW_Emit \/ RW_Unexpected \/ RW_Finally

NextRW == Cancel \/ StepsRW

SpecRW == InitRW /\ [][NextRW]_vars

----------------------------------------------------------------------------
(* Photogrammetry3DThread.run                                              *)

\* "for i in range(n): for j in range(i + 1, n)" of _match_images, in order
AllPairs(n) ==
    LET S == { q \in (0 .. n - 1) \X (0 .. n - 1) : q[1] < q[2] }
        Rank(q) == Cardinality({ o \in S : o[1] < q[1] \/
                                           (o[1] = q[1] /\ o[2] < q[2]) }) + 1
    IN  [k \in 1 .. Cardinality(S) |-> CHOOSE q \in S : Rank(q) = k]

\* "self.finished.emit(payload)" ending run: "" reports a failure, a path the
\* final output
P3D_Finish(payload) ==
    /\ finishedLog' = Append(finishedLog, payload)
    /\ pc' = "done"
    /\ raised' = IF payload = "" THEN "failed" ELSE raised
    /\ UNCHANGED << startedLog, errorLog, resultLog >>

\* the head of run: progress 5 and os.makedirs
P3D_Begin ==
    /\ impl = "P3D" /\ pc = "idle"
    /\ progress' = 5 /\ pc' = "load" /\ idx' = 0
    /\ UNCHANGED << others, config, cancel, history, geometry, files, output,
                    channels, raised >>

\* one iteration of the loop of _load_and_validate_images
P3D_Load ==
    /\ impl = "P3D" /\ pc = "load" /\ idx < nPaths
    /\ \E ok \in BOOLEAN : nImgs' = IF ok THEN nImgs + 1 ELSE nImgs
    /\ idx' = idx + 1
    /\ UNCHANGED << others, config, pc, cancel, history, feats, matches, tried,
                    estimated, poses, rel, globalPose, nPts, files, output,
                    progress,
                    channels, raised >>

\* "if not images: ... self.finished.emit(''); return"
P3D_LoadGate ==
    /\ impl = "P3D" /\ pc = "load" /\ idx = nPaths
    /\ IF nImgs = 0
       THEN P3D_Finish("") /\ UNCHANGED << idx, progress >>
       ELSE /\ progress' = 15 /\ pc' = "extract" /\ idx' = 0
            /\ UNCHANGED << channels, raised >>
    /\ UNCHANGED << others, config, cancel, history, geometry, files, output >>

\* one iteration of the loop of _detect_features: an image whose descriptors
\* are None (or whose detection raises) is left out of the feature list
P3D_Detect ==
    /\ impl = "P3D" /\ pc = "extract" /\ idx < nImgs
    /\ \E found \in BOOLEAN :
         feats' = IF found THEN Append(feats, 500) ELSE feats
    /\ idx' = idx + 1
    /\ UNCHANGED << others, config, pc, cancel, history, nImgs, matches, tried,
                    estimated, poses, rel, globalPose, nPts, files, output,
                    progress,
                    channels, raised >>

\* "if not features: ... self.finished.emit(''); return"
P3D_DetectGate ==
    /\ impl = "P3D" /\ pc = "extract" /\ idx = nImgs
    /\ IF feats = << >>
       THEN P3D_Finish("") /\ UNCHANGED << idx, progress >>
       ELSE /\ progress' = 30 /\ pc' = "match" /\ idx' = 1
            /\ UNCHANGED << channels, raised >>
    /\ UNCHANGED << others, config, cancel, history, geometry, files, output >>

\* one pair of _match_images: the ratio-test survivors are recorded when
\* there are at least min_matches of them; an exception is logged
P3D_Match ==
    /\ impl = "P3D" /\ pc = "match" /\ idx <= Len(AllPairs(Len(feats)))
    /\ LET pair == AllPairs(Len(feats))[idx]
       IN  /\ tried' = tried \cup {pair}
           /\ \E good \in GoodCounts(feats[pair[1] + 1], feats[pair[2] + 1]) :
                matches' = IF good >= minMatches
                           THEN Append(matches,
                                       [i |-> pair[1], j |-> pair[2], n |-> good])
                           ELSE matches
    /\ idx' = idx + 1
    /\ UNCHANGED << others, config, pc, cancel, history, nImgs, feats, estimated,
                    poses, rel, globalPose, nPts, files, output,
                    progress, channels,
                    raised >>

\* "if not matches: ... self.finished.emit(''); return"
P3D_MatchGate ==
    /\ impl = "P3D" /\ pc = "match" /\ idx > Len(AllPairs(Len(feats)))
    /\ IF matches = << >>
       THEN P3D_Finish("") /\ UNCHANGED << idx, progress >>
       ELSE /\ progress' = 45 /\ pc' = "pose_init" /\ idx' = 0
            /\ UNCHANGED << channels, raised >>
    /\ UNCHANGED << others, config, cancel, history, geometry, files, output >>

\* the head of _estimate_poses: the first image is read again for the
\* intrinsics and "poses[0] = {'R': np.eye(3), 't': np.zeros((3, 1)), ...}"
P3D_PoseInit ==
    /\ impl = "P3D" /\ pc = "pose_init"
    /\ poses' = (0 :> IdentityPose)
    /\ pc' = "pose" /\ idx' = 1
    /\ UNCHANGED << others, config, cancel, history, nImgs, feats, matches, tried,
                    estimated, rel, globalPose, nPts, files, output, progress,
                    channels, raised >>

\* "poses[j] = {'R': R, 't': t, 'K': K}"
P3D_ForwardPose(r, i) == r

\* "poses[i] = {'R': R.T, 't': -R.T @ t, 'K': K}"
P3D_BackwardPose(r, j) == Inverse(r)

\* the pose map after the match (i, j) got the relative pose r
P3D_Chain(r, i, j) ==
    IF i \in DOMAIN poses /\ j \notin DOMAIN poses
    THEN SetPose(poses, j, P3D_ForwardPose(r, i))
    ELSE IF j \in DOMAIN poses /\ i \notin DOMAIN poses
         THEN SetPose(poses, i, P3D_BackwardPose(r, j))
         ELSE poses

\* one iteration of "for match in matches" of _estimate_poses
P3D_Pose ==
    /\ impl = "P3D" /\ pc = "pose" /\ idx <= Len(matches)
    /\ LET i == matches[idx].i
           j == matches[idx].j
       IN  IF i \notin DOMAIN poses /\ j \notin DOMAIN poses
           THEN \* "continue"
                /\ rel' = NoRel
                /\ UNCHANGED << estimated, poses >>
           ELSE /\ estimated' = estimated \cup {<<i, j>>}
                /\ \/ \* E is None, or the pair's exception is logged
                      /\ rel' = NoRel
                      /\ poses' = poses
                   \/ /\ rel' = RelBetween(i, j)
                      /\ poses' = P3D_Chain(RelBetween(i, j), i, j)
    /\ idx' = idx + 1
    /\ UNCHANGED << others, config, pc, cancel, history, nImgs, feats, matches,
                    tried, globalPose, nPts, files, output, progress,
                    channels, raised >>

\* "return poses if len(poses) >= 2 else None" and "if not poses: ..."
P3D_PoseGate ==
    /\ impl = "P3D" /\ pc = "pose" /\ idx > Len(matches)
    /\ IF Cardinality(DOMAIN poses) < MinPoses
       THEN P3D_Finish("") /\ UNCHANGED progress
       ELSE /\ progress' = 60 /\ pc' = "cloud"
            /\ UNCHANGED << channels, raised >>
    /\ UNCHANGED << others, config, cancel, history, idx, geometry, files, output >>

\* _generate_dense_cloud and "if point_cloud is None: ...": the matches whose
\* two poses are known are triangulated; no point at all gives None, otherwise
\* the cloud is filtered and o3d.io.write_point_cloud is called (its return
\* value is not looked at)
P3D_Cloud ==
    /\ impl = "P3D" /\ pc = "cloud"
    /\ \/ /\ nPts' = 0 /\ files' = files
          /\ P3D_Finish("") /\ UNCHANGED progress
       \/ /\ Triangulated > 0
          /\ nPts' = Triangulated
          /\ files' \in {files \cup {PointCloudFile}, files}
          /\ progress' = 75 /\ pc' = "mesh"
          /\ UNCHANGED << channels, raised >>
    /\ UNCHANGED << others, config, cancel, history, idx, nImgs, feats, matches,
                    tried, estimated, poses, rel, globalPose, output >>

\* what run does when _generate_mesh returned None:
\* "if not mesh_file: ... self.finished.emit(''); return"
P3D_NoMesh == P3D_Finish("")

\* _generate_mesh and "if not mesh_file: ...": Poisson reconstruction and the
\* write of mesh.ply, or None when anything of it raises
P3D_Mesh ==
    /\ impl = "P3D" /\ pc = "mesh"
    /\ \/ /\ \/ files' = files \cup {MeshFiles[1]} /\ meshFailed' = meshFailed
             \/ files' = files /\ meshFailed' = TRUE
          /\ output' = MeshFiles[1]
          /\ progress' = 90 /\ pc' = "export"
          /\ UNCHANGED << channels, raised >>
       \/ /\ meshFailed' = TRUE
          /\ P3D_NoMesh
          /\ UNCHANGED << files, output, progress >>
    /\ UNCHANGED << others, config, cancel, cancelAt, cancelSeen, idx, geometry >>

\* _export_results with a mesh file (OBJ and STL are written; an exception
\* is logged and the mesh file is still returned), progress 100 and
\* "self.finished.emit(final_output)"
P3D_Export ==
    /\ impl = "P3D" /\ pc = "export"
    /\ \E written \in SUBSET {MeshFiles[2], MeshFiles[3]} :
         /\ files' = files \cup written
         /\ meshFailed' = (meshFailed \/ written # {MeshFiles[2], MeshFiles[3]})
    /\ progress' = 100
    /\ P3D_Finish(output)
    /\ UNCHANGED << others, config, cancel, cancelAt, cancelSeen, idx, geometry, output >>

\* "except Exception as e: ... self.finished.emit('')" for an exception that
\* no inner handler catches (the first image cannot be read again, the cloud
\* cannot be built)
P3D_Unexpected ==
    /\ impl = "P3D" /\ pc \in {"pose_init", "cloud"}
    /\ P3D_Finish("")
    /\ UNCHANGED << others, config, cancel, history, idx, geometry, files, output,
                    progress >>

\* Photogrammetry3DThread.__init__ (quality 'medium')
InitP3D ==
    /\ impl = "P3D"
    /\ nPaths \in 0 .. MaxViews
    /\ minMatches = MediumMatches
    /\ wrapMatch = FALSE
    /\ sweep \in RelPoses
    /\ Fresh /\ OthersIdle

NextP3D ==
    \/ P3D_Begin \/ P3D_Load \/ P3D_LoadGate \/ P3D_Detect \/ P3D_DetectGate
    \/ P3D_Match \/ P3D_MatchGate \/ P3D_PoseInit \/ P3D_Pose \/ P3D_PoseGate
    \/ P3D_Cloud \/ P3D_Mesh \/ P3D_Export \/ P3D_Unexpected

SpecP3D == InitP3D /\ [][NextP3D]_vars

----------------------------------------------------------------------------
(* TaskRunnable.run running run_pipeline, which runs reconstruct_sparse    *)

\* "except Exception as e: ... self.signals.error.emit(task_id, short, ...)"
TR_Fail(short) ==
    /\ errorLog' = Append(errorLog, short)
    /\ raised' = short
    /\ pc' = "finally"
    /\ UNCHANGED << startedLog, resultLog, finishedLog >>

\* "self.signals.started.emit(self.task_id)" and the injection of
\* cancel_event, progress_cb and message_cb
TR_Begin ==
    /\ impl = "TR" /\ pc = "idle"
    /\ startedLog' = Append(startedLog, "task")
    /\ pc' = "load" /\ idx' = 0
    /\ UNCHANGED << others, config, cancel, history, geometry, files, output,
                    progress, errorLog, resultLog, finishedLog, raised >>

\* one iteration of "for p in inp.image_paths" of run_pipeline:
\* "if img is None: raise RuntimeError(...)"
TR_Load ==
    /\ impl = "TR" /\ pc = "load" /\ idx < nPaths
    /\ \/ /\ nImgs' = nImgs + 1 /\ idx' = idx + 1 /\ pc' = pc
          /\ UNCHANGED << channels, raised >>
       \/ /\ TR_Fail("RuntimeError") /\ UNCHANGED << nImgs, idx >>
    /\ UNCHANGED << others, config, cancel, history, feats, matches, tried,
                    estimated, poses, rel, globalPose, nPts, files, output,
                    progress >>

\* the head of reconstruct_sparse: the detector, the intrinsics from
\* bgr_images[0] (an IndexError without images), R_global and t_global
TR_Setup ==
    /\ impl = "TR" /\ pc = "load" /\ idx = nPaths
    /\ IF nImgs = 0
       THEN TR_Fail("IndexError") /\ UNCHANGED << idx, globalPose >>
       ELSE /\ globalPose' = IdentityPose
            /\ pc' = "pairs" /\ idx' = 0
            /\ UNCHANGED << channels, raised >>
    /\ UNCHANGED << others, config, cancel, history, nImgs, feats, matches, tried,
                    estimated, poses, rel, nPts, files, output, progress >>

\* n_pairs = max(0, len(bgr_images) - 1)
TR_NPairs == IF nImgs >= 1 THEN nImgs - 1 ELSE 0

\* "R_global = R @ R_global; t_global = t_global + (R_global @ t)"
TR_Accumulate(r, g) ==
    [R |-> (r.R + g.R) % 4,
     t |-> << g.t[1] + Rot((r.R + g.R) % 4, r.t)[1],
              g.t[2] + Rot((r.R + g.R) % 4, r.t)[2] >>]

\* faulty variant of TR_Percent: the share of the pairs still to be done
TR_PercentRemaining(i) ==
    100 - (100 * (i + 1)) \div (IF TR_NPairs >= 1 THEN TR_NPairs ELSE 1)

\* "progress_cb(100.0 * (i + 1) / max(1, n_pairs))" through
\* "lambda p: self.signals.progress.emit(self.task_id, int(p))"
TR_Percent(i) == (100 * (i + 1)) \div (IF TR_NPairs >= 1 THEN TR_NPairs ELSE 1)

\* what the loop of reconstruct_sparse does once is_set() is seen:
\* "raise RuntimeError('Islem iptal edildi')", caught by TaskRunnable.run
TR_Cancelled == TR_Fail("RuntimeError")

\* "if len(good) < 12"
TR_TooFewGood(good) == good < MinGood

\* one iteration of "for i in range(n_pairs)" of reconstruct_sparse
TR_Pair ==
    /\ impl = "TR" /\ pc = "pairs" /\ idx < TR_NPairs
    /\ IF cancel
       THEN /\ TR_Cancelled
            /\ cancelSeen' = TRUE
            /\ UNCHANGED << idx, matches, tried, estimated, rel, globalPose,
                            nPts, progress >>
       ELSE /\ cancelSeen' = cancelSeen
            /\ tried' = tried \cup {<<idx, idx + 1>>}
            /\ idx' = idx + 1 /\ pc' = pc
            /\ UNCHANGED << channels, raised >>
            /\ \E good \in GoodCounts(500, 500) :
               IF TR_TooFewGood(good)
               THEN \* "if len(good) < 12: continue"
                  /\ rel' = NoRel
                  /\ UNCHANGED << matches, estimated, globalPose, nPts,
                                  progress >>
               ELSE
                  /\ matches' = Append(matches,
                        [i |-> idx, j |-> idx + 1, n |-> good])
                  /\ estimated' = estimated \cup {<<idx, idx + 1>>}
                  /\ \/ \* "if E is None: continue", "if len(pts1i) < 10:
                        \* continue"
                        /\ rel' = NoRel
                        /\ UNCHANGED << globalPose, nPts, progress >>
                     \/ /\ rel' = RelBetween(idx, idx + 1)
                        /\ globalPose' =
                             TR_Accumulate(RelBetween(idx, idx + 1), globalPose)
                        /\ \E k \in {0, MinInliers} : nPts' = nPts + k
                        /\ progress' = TR_Percent(idx)
    /\ UNCHANGED << others, config, cancel, cancelAt, meshFailed, nImgs, feats,
                    poses, files, output >>

\* after the loop: "if not points_3d: raise RuntimeError(...)", then the
\* cloud is normalised and o3d.io.write_point_cloud is called (its return
\* value is not looked at)
TR_WritePointCloud ==
    /\ impl = "TR" /\ pc = "pairs" /\ idx = TR_NPairs
    /\ IF nPts = 0
       THEN TR_Fail("RuntimeError") /\ UNCHANGED files
       ELSE /\ files' \in {files \cup {PointCloudFile}, files}
            /\ pc' = "mesh"
            /\ UNCHANGED << channels, raised >>
    /\ UNCHANGED << others, config, cancel, history, idx, geometry, output,
                    progress >>

\* the mesh part of reconstruct_sparse: alpha shape, then mesh.ply, mesh.obj
\* and mesh.stl are written until a call raises ("except Exception: pass");
\* the result names the point cloud in every case
TR_Mesh ==
    /\ impl = "TR" /\ pc = "mesh"
    /\ \E k \in 0 .. Len(MeshFiles) :
         \E written \in SUBSET { MeshFiles[m] : m \in 1 .. k } :
           /\ files' = files \cup written
           /\ meshFailed' = (written # { MeshFiles[m] : m \in 1 .. Len(MeshFiles) })
    /\ output' = PointCloudFile
    /\ pc' = "emit"
    /\ UNCHANGED << others, config, cancel, cancelAt, cancelSeen, idx, geometry, progress,
                    channels, raised >>

\* "out = self.fn(...); self.signals.result.emit(self.task_id, out)"
TR_Emit ==
    /\ impl = "TR" /\ pc = "emit"
    /\ resultLog' = Append(resultLog, output)
    /\ pc' = "finally"
    /\ UNCHANGED << others, config, cancel, history, idx, geometry, files, output,
                    progress, startedLog, errorLog, finishedLog, raised >>

\* an exception no check of the pipeline raises (cv2.error, an unpacking
\* error in _match, MemoryError, ...)
TR_Unexpected ==
    /\ impl = "TR" /\ pc = "pairs"
    /\ TR_Fail("Exception")
    /\ UNCHANGED << others, config, cancel, history, idx, geometry, files, output,
                    progress >>

\* faulty variant of TR_Finally: finished is emitted in the try block
\* only, after result
TR_FinallyAfterResultOnly ==
    /\ impl = "TR" /\ pc = "finally"
    /\ finishedLog' = IF resultLog # << >> THEN Append(finishedLog, "task")
                      ELSE finishedLog
    /\ pc' = "done"
    /\ UNCHANGED << others, config, cancel, history, idx, geometry, files, output,
                    progress, startedLog, errorLog, resultLog, raised >>

\* "finally: self.signals.finished.emit(self.task_id)"
TR_Finally ==
    /\ impl = "TR" /\ pc = "finally"
    /\ finishedLog' = Append(finishedLog, "task")
    /\ pc' = "done"
    /\ UNCHANGED << others, config, cancel, history, idx, geometry, files, output,
                    progress, startedLog, errorLog, resultLog, raised >>

\* TaskManager.submit(task_id, run_pipeline, ...)
InitTR ==
    /\ impl = "TR"
    /\ nPaths \in 0 .. MaxViews
    /\ minMatches = MinGood
    /\ wrapMatch = FALSE
    /\ sweep \in RelPoses
    /\ Fresh /\ OthersIdle

\* the steps of TaskRunnable.run
StepsTR ==
    \/ TR_Begin \/ TR_Load \/ TR_Setup \/ TR_Pair \/ TR_WritePointCloud
    \/ TR_Mesh \/ TR_Emit \/ TR_Unexpected \/ TR_Finally

NextTR == Cancel \/ StepsTR

SpecTR == InitTR /\ [][NextTR]_vars

----------------------------------------------------------------------------
(* _ReconThread.run_operation                                              *)

\* os.path.join(self.output_dir, "model.ply")
StubFile == "model.ply"

\* "self.stage_changed.emit(...); self.progress.emit(10)"
V2_Begin ==
    /\ impl = "V2" /\ pc = "idle"
    /\ progress' = 10 /\ pc' = "load" /\ idx' = 0
    /\ UNCHANGED << others, config, cancel, history, geometry, files, output,
                    channels, raised >>

\* one iteration of "for path in self.image_paths":
\* "if self.should_stop(): return", else the image is read
V2_Load ==
    /\ impl = "V2" /\ pc = "load" /\ idx < nPaths
    /\ IF cancel
       THEN pc' = "done" /\ cancelSeen' = TRUE /\ UNCHANGED << idx, nImgs >>
       ELSE /\ pc' = pc /\ idx' = idx + 1 /\ cancelSeen' = cancelSeen
            /\ \E ok \in BOOLEAN : nImgs' = IF ok THEN nImgs + 1 ELSE nImgs
    /\ UNCHANGED << others, config, cancel, cancelAt, meshFailed, feats, matches, tried,
                    estimated, poses, rel, globalPose, nPts, files, output,
                    progress, channels, raised >>

\* the number of decoded images below which run_operation gives up:
\* "if len(images) < 3: self.error.emit(...); return"
V2_Required == StubMinImages

\* the rest of the try block: the gate on the number of images, the stage
\* announcements up to progress 90, and the write of model.ply; an exception
\* is sent on the error channel
V2_Build ==
    /\ impl = "V2" /\ pc = "load" /\ idx = nPaths
    /\ IF nImgs < V2_Required
       THEN /\ errorLog' = Append(errorLog, "Yeterli goruntu yok")
            /\ raised' = "Yeterli goruntu yok"
            /\ pc' = "done"
            /\ UNCHANGED << files, output, progress >>
       ELSE \/ /\ files' = files \cup {StubFile}
               /\ output' = StubFile
               /\ progress' = 100
               /\ pc' = "finish"
               /\ UNCHANGED << errorLog, raised >>
            \/ /\ files' \in {files, files \cup {StubFile}}
               /\ output' = StubFile
               /\ progress' = 90
               /\ errorLog' = Append(errorLog, "3D olusturma hatasi")
               /\ raised' = "3D olusturma hatasi"
               /\ pc' = "finish"
    /\ UNCHANGED << others, config, cancel, history, idx, geometry, startedLog,
                    resultLog, finishedLog >>

\* "self.finished.emit()"
V2_Finished ==
    /\ impl = "V2" /\ pc = "finish"
    /\ finishedLog' = Append(finishedLog, "")
    /\ pc' = "done"
    /\ UNCHANGED << others, config, cancel, history, idx, geometry, files, output,
                    progress, startedLog, errorLog, resultLog, raised >>

\* ReconstructionThread.create(image_paths, output_dir)
InitV2 ==
    /\ impl = "V2"
    /\ nPaths \in 0 .. MaxViews
    /\ minMatches = 0
    /\ wrapMatch = FALSE
    /\ sweep \in RelPoses
    /\ Fresh /\ OthersIdle

\* the steps of _ReconThread.run_operation
StepsV2 == V2_Begin \/ V2_Load \/ V2_Build \/ V2_Finished

NextV2 == Cancel \/ StepsV2

SpecV2 == InitV2 /\ [][NextV2]_vars

----------------------------------------------------------------------------
(* All the jobs                                                            *)

Init == InitRW \/ InitP3D \/ InitTR \/ InitV2

Next == Cancel \/ StepsRW \/ NextP3D \/ StepsTR \/ StepsV2

Spec == Init /\ [][Next]_vars

----------------------------------------------------------------------------
(* The ratio test of _match_pair, _match and _match_images                 *)

\* distances are drawn from 0 .. MaxDist
MaxDist == 4
\* knnMatch returns at most MaxRows rows
MaxRows == 2

\* "m.distance < 0.75 * n.distance" in _match_pair, in hundredths
RW_Ratio == 75
\* "m.distance < 0.75 * n.distance" in _match, in hundredths
TR_Ratio == 75
\* "m.distance < 0.7 * n_match.distance" in _match_images, in hundredths
P3D_Ratio == 70

\* a row of knnMatch(k=2): the distance of the best neighbour and, when the
\* second descriptor set has more than one descriptor, of the second best,
\* in increasing order
KnnRows ==
    { << m >> : m \in 0 .. MaxDist } \cup
    { q \in (0 .. MaxDist) \X (0 .. MaxDist) : q[1] <= q[2] }

\* what knnMatch can return
KnnLists == UNION { [1 .. k -> KnnRows] : k \in 0 .. MaxRows }

\* faulty variant of RW_PassesRatio: the comparison is not strict
RW_PassesRatioLoose(m, n) == 100 * m <= RW_Ratio * n

\* "if m.distance < 0.75 * n.distance" of _match_pair
RW_PassesRatio(m, n) == 100 * m < RW_Ratio * n

\* "if m.distance < 0.75 * n.distance" of _match
TR_PassesRatio(m, n) == 100 * m < TR_Ratio * n

\* "if m.distance < 0.7 * n_match.distance" of _match_images
P3D_PassesRatio(m, n) == 100 * m < P3D_Ratio * n

\* one iteration of "for pair in knn" of _match_pair
RW_RatioRow ==
    /\ impl = "RW" /\ pc = "ratio" /\ idx <= Len(knn)
    /\ goodRows' = IF Len(knn[idx]) < 2
                   THEN \* "if len(pair) < 2: continue"
                        goodRows
                   ELSE IF RW_PassesRatio(knn[idx][1], knn[idx][2])
                        THEN Append(goodRows, knn[idx])
                        ELSE goodRows
    /\ idx' = idx + 1
    /\ UNCHANGED << impl, pc, job, filter, selector, notifier, store, backup,
                    safeOp, download, batch, cthread, parallel, knn >>

\* one iteration of "for m, n in matches" of _match: a row with one
\* neighbour cannot be unpacked (ValueError)
TR_RatioRow ==
    /\ impl = "TR" /\ pc = "ratio" /\ idx <= Len(knn)
    /\ IF Len(knn[idx]) < 2
       THEN pc' = "ratio_raised" /\ UNCHANGED << idx, goodRows >>
       ELSE /\ goodRows' = IF TR_PassesRatio(knn[idx][1], knn[idx][2])
                           THEN Append(goodRows, knn[idx])
                           ELSE goodRows
            /\ idx' = idx + 1 /\ pc' = pc
    /\ UNCHANGED << impl, job, filter, selector, notifier, store, backup,
                    safeOp, download, batch, cthread, parallel, knn >>

\* one iteration of "for m_n in knn_matches" of _match_images
P3D_RatioRow ==
    /\ impl = "P3D" /\ pc = "ratio" /\ idx <= Len(knn)
    /\ goodRows' = IF Len(knn[idx]) = 2
                        /\ P3D_PassesRatio(knn[idx][1], knn[idx][2])
                   THEN Append(goodRows, knn[idx])
                   ELSE goodRows
    /\ idx' = idx + 1
    /\ UNCHANGED << impl, pc, job, filter, selector, notifier, store, backup,
                    safeOp, download, batch, cthread, parallel, knn >>

\* the end of the loop: "return good"
RatioReturn ==
    /\ pc = "ratio" /\ idx > Len(knn)
    /\ pc' = "ratio_done"
    /\ UNCHANGED << impl, idx, job, filter, selector, notifier, store, backup,
                    matcher, safeOp, download, batch, cthread, parallel >>

\* a call of the ratio test on the result of knnMatch
InitRatio ==
    /\ impl \in {"RW", "TR", "P3D"}
    /\ pc = "ratio" /\ idx = 1
    /\ knn \in KnnLists /\ goodRows = << >>
    /\ SafeOpIdle
    /\ DownloadIdle
    /\ BatchIdle
    /\ CThreadIdle
    /\ ParallelIdle
    /\ JobIdle /\ FilterIdle /\ SelectorIdle /\ NotifierIdle
    /\ StoreIdle /\ BackupIdle

NextRatio == RW_RatioRow \/ TR_RatioRow \/ P3D_RatioRow \/ RatioReturn

SpecRatio == InitRatio /\ [][NextRatio]_vars

----------------------------------------------------------------------------
(* The outlier filters of _triangulate_sparse and _generate_dense_cloud    *)

\* a cloud holds at most MaxCloud points
MaxCloud == 3
\* the points lie at the positions 0 .. MaxCoord of a line
MaxCoord == 3

\* np.quantile(dist, 0.98), in hundredths
RW_Quantile == 98
\* remove_statistical_outlier(nb_neighbors=20, ...)
P3D_Neighbors == 20
\* remove_statistical_outlier(..., std_ratio=2.0)
P3D_StdRatio == 2

\* the finite points a triangulation can produce
Clouds == UNION { [1 .. k -> 0 .. MaxCoord] : k \in 0 .. MaxCloud }

Abs(x) == IF x < 0 THEN -x ELSE x

\* the values of d in increasing order (np.sort)
Sorted(d) ==
    LET Rank(i) == Cardinality({ j \in DOMAIN d :
                       d[j] < d[i] \/ (d[j] = d[i] /\ j < i) }) + 1
    IN  [r \in DOMAIN d |-> d[CHOOSE i \in DOMAIN d : Rank(i) = r]]

\* 100 * np.quantile(d, q / 100) for a non-empty d: linear interpolation
\* between the two order statistics around the position (q / 100) * (n - 1)
Quantile100(d, q) ==
    LET n == Len(d)
        h == q * (n - 1)
        lo == (h \div 100) + 1
        hi == IF lo < n THEN lo + 1 ELSE n
    IN  (100 - (h % 100)) * Sorted(d)[lo] + (h % 100) * Sorted(d)[hi]

\* 2 * np.median(pts, axis=0)
Median2(pts) ==
    LET n == Len(pts)
    IN  IF n % 2 = 1 THEN 2 * Sorted(pts)[(n + 1) \div 2]
        ELSE Sorted(pts)[n \div 2] + Sorted(pts)[(n \div 2) + 1]

\* 2 * np.linalg.norm(pts - center, axis=1) for center = np.median(pts)
RW_Dist2(pts) == [i \in DOMAIN pts |-> Abs(2 * pts[i] - Median2(pts))]

\* "keep = dist < np.quantile(dist, 0.98)"
RW_Keep(pts) ==
    { i \in DOMAIN pts :
        100 * RW_Dist2(pts)[i] < Quantile100(RW_Dist2(pts), RW_Quantile) }

\* "if pts.shape[0] > 0: ... pts = pts[keep]" of _triangulate_sparse
RW_Filter ==
    /\ impl = "RW" /\ pc = "filter"
    /\ kept' = IF Len(cloud) > 0 THEN RW_Keep(cloud) ELSE {}
    /\ pc' = "filtered"
    /\ UNCHANGED << impl, idx, job, matcher, selector, notifier, store, backup,
                    safeOp, download, batch, cthread, parallel, cloud >>

\* the sum of the distances from point i to its nb_neighbors nearest
\* neighbours; a cloud of at most nb_neighbors points has them all as
\* neighbours, and every point has the same number of them
P3D_NeighborSum(pts, i) ==
    LET near == IF Len(pts) <= P3D_Neighbors THEN DOMAIN pts ELSE {}
    IN  SumSeq([j \in DOMAIN pts |->
                  IF j \in near THEN Abs(pts[i] - pts[j]) ELSE 0])

\* n * (S_i - mean(S)) for the neighbour sums S of the cloud
P3D_Deviation(pts, i) ==
    Len(pts) * P3D_NeighborSum(pts, i) -
    SumSeq([j \in DOMAIN pts |-> P3D_NeighborSum(pts, j)])

\* pcd.remove_statistical_outlier(nb_neighbors=20, std_ratio=2.0): a point
\* stays when its mean neighbour distance is positive and below the mean of
\* these means plus std_ratio sample standard deviations
P3D_Keep(pts) ==
    { i \in DOMAIN pts :
        /\ P3D_NeighborSum(pts, i) > 0
        /\ \/ P3D_Deviation(pts, i) < 0
           \/ (Len(pts) - 1) * P3D_Deviation(pts, i) * P3D_Deviation(pts, i) <
                P3D_StdRatio * P3D_StdRatio *
                SumSeq([j \in DOMAIN pts |->
                          P3D_Deviation(pts, j) * P3D_Deviation(pts, j)]) }

\* the outlier removal of _generate_dense_cloud when open3d is there
P3D_Filter ==
    /\ impl = "P3D" /\ pc = "filter" /\ Len(cloud) > 0
    /\ kept' = P3D_Keep(cloud)
    /\ pc' = "filtered"
    /\ UNCHANGED << impl, idx, job, matcher, selector, notifier, store, backup,
                    safeOp, download, batch, cthread, parallel, cloud >>

\* "except ImportError: return self._generate_sparse_cloud(...)": without
\* open3d every triangulated point is returned
P3D_NoFilter ==
    /\ impl = "P3D" /\ pc = "filter" /\ Len(cloud) > 0
    /\ kept' = DOMAIN cloud
    /\ pc' = "filtered"
    /\ UNCHANGED << impl, idx, job, matcher, selector, notifier, store, backup,
                    safeOp, download, batch, cthread, parallel, cloud >>

\* "if len(points_3d) == 0: return None"
P3D_NoPoints ==
    /\ impl = "P3D" /\ pc = "filter" /\ Len(cloud) = 0
    /\ pc' = "no_cloud"
    /\ UNCHANGED << impl, idx, job, matcher, selector, notifier, store, backup,
                    filter, safeOp, download, batch, cthread, parallel >>

\* the triangulated points, the non-finite ones removed, reach the filter
InitFilter ==
    /\ impl \in {"RW", "P3D"}
    /\ pc = "filter" /\ idx = 0
    /\ cloud \in Clouds /\ kept = {}
    /\ SafeOpIdle
    /\ DownloadIdle
    /\ BatchIdle
    /\ CThreadIdle
    /\ ParallelIdle
    /\ JobIdle /\ MatcherIdle /\ SelectorIdle /\ NotifierIdle
    /\ StoreIdle /\ BackupIdle

NextFilter == RW_Filter \/ P3D_Filter \/ P3D_NoFilter \/ P3D_NoPoints

SpecFilter == InitFilter /\ [][NextFilter]_vars

----------------------------------------------------------------------------
(* The choice of the feature detector                                      *)

\* what a caller hands to choose_feature_strategy: an entry of the mode combo
\* box of the 3D tab or another word, in any spelling
RW_Modes ==
    { Spelt(n, c, p) : n \in {"speed", "balanced", "quality", "fast"},
                       c \in {"lower", "upper", "title"},
                       p \in {"none", "left", "right", "both"} }

\* class Mode(str, Enum): FAST = "fast", HQ = "hq"
TR_Modes == {Str("fast"), Str("hq")}

\* str.lower
Lower(m) == [m EXCEPT !.casing = "lower"]

\* str.strip
Strip(m) == [m EXCEPT !.pad = "none"]

\* "mode = mode.lower().strip()"
RW_Normalise ==
    /\ impl = "RW" /\ pc = "choose"
    /\ mode' = Strip(Lower(mode))
    /\ pc' = "normalised"
    /\ UNCHANGED << impl, idx, job, matcher, filter, notifier, store, backup,
                    safeOp, download, batch, cthread, parallel, siftOk,
                    needSpeed, algo >>

\* the name of the strategy choose_feature_strategy returns: "try: _ =
\* cv2.SIFT_create(); return SIFTExtractor() except Exception: return
\* AKAZEExtractor()" in the quality branch and in the one for the rest
RW_Strategy(m, ok) ==
    IF m = Str("speed") THEN "ORB"
    ELSE IF m = Str("quality") THEN (IF ok THEN "SIFT" ELSE "AKAZE")
    ELSE (IF ok THEN "SIFT" ELSE "AKAZE")

\* the branches of choose_feature_strategy
RW_Choose ==
    /\ impl = "RW" /\ pc = "normalised"
    /\ algo' = RW_Strategy(mode, siftOk)
    /\ pc' = "chosen"
    /\ UNCHANGED << impl, idx, job, matcher, filter, notifier, store, backup,
                    safeOp, download, batch, cthread, parallel, mode, siftOk,
                    needSpeed >>

\* "detector = self.create(nfeatures)" of FeatureExtractorStrategy.detect
RW_Create ==
    /\ impl = "RW" /\ pc = "chosen"
    /\ pc' = "created"
    /\ UNCHANGED << impl, idx, job, matcher, filter, notifier, store, backup,
                    selector, safeOp, download, batch, cthread, parallel >>

\* choose_feature_algo
TR_FeatureAlgo(m, speed) ==
    IF m = Str("fast") THEN "orb"
    ELSE IF speed THEN "akaze" ELSE "sift"

\* a call of choose_feature_algo
TR_ChooseAlgo ==
    /\ impl = "TR" /\ pc = "choose_algo"
    /\ algo' = TR_FeatureAlgo(mode, needSpeed)
    /\ pc' = "chosen"
    /\ UNCHANGED << impl, idx, job, matcher, filter, notifier, store, backup,
                    safeOp, download, batch, cthread, parallel, mode, siftOk,
                    needSpeed >>

\* "algo = FeatureAlgo.ORB if mode == Mode.FAST else FeatureAlgo.SIFT" of
\* reconstruct_sparse
TR_ChooseSparse ==
    /\ impl = "TR" /\ pc = "choose_sparse"
    /\ algo' = IF mode = Str("fast") THEN "orb" ELSE "sift"
    /\ pc' = "chosen"
    /\ UNCHANGED << impl, idx, job, matcher, filter, notifier, store, backup,
                    safeOp, download, batch, cthread, parallel, mode, siftOk,
                    needSpeed >>

\* create_detector: cv2.SIFT_create raises where the build has no SIFT
TR_CreateDetector ==
    /\ impl = "TR" /\ pc = "chosen"
    /\ pc' = IF algo = "sift" /\ ~siftOk THEN "create_raised" ELSE "created"
    /\ UNCHANGED << impl, idx, job, matcher, filter, notifier, store, backup,
                    selector, safeOp, download, batch, cthread, parallel >>

\* a detector is asked for: by ReconstructionWorker.run, by a caller of
\* choose_feature_algo, or by reconstruct_sparse
InitSelect ==
    /\ \/ /\ impl = "RW" /\ pc = "choose"
          /\ mode \in RW_Modes /\ needSpeed = FALSE
       \/ /\ impl = "TR" /\ pc = "choose_algo"
          /\ mode \in TR_Modes /\ needSpeed \in BOOLEAN
       \/ /\ impl = "TR" /\ pc = "choose_sparse"
          /\ mode \in TR_Modes /\ needSpeed = FALSE
    /\ siftOk \in BOOLEAN
    /\ algo = "" /\ idx = 0
    /\ SafeOpIdle
    /\ DownloadIdle
    /\ BatchIdle
    /\ CThreadIdle
    /\ ParallelIdle
    /\ JobIdle /\ MatcherIdle /\ FilterIdle /\ NotifierIdle
    /\ StoreIdle /\ BackupIdle

NextSelect ==
    \/ RW_Normalise \/ RW_Choose \/ RW_Create
    \/ TR_ChooseAlgo \/ TR_ChooseSparse \/ TR_CreateDetector

SpecSelect == InitSelect /\ [][NextSelect]_vars

----------------------------------------------------------------------------
(* NotificationManager                                                     *)

\* a caller makes at most MaxNotify notify calls
MaxNotify == 2

\* the functions a caller registers
Callbacks == {"test_callback"}

\* the titles and messages a caller notifies with
Titles == {"Test"}
Messages == {"Mesaj"}

\* one thing a notify call did: a toast shown, a sound asked for, or a
\* callback called with (title, message)
Event(kind, who, title, message) ==
    [kind |-> kind, who |-> who, title |-> title, message |-> message]

\* "if notification_type in self._callbacks: try:
\* self._callbacks[notification_type](title, message) except: pass"
CallbackEvents(t, title, message) ==
    IF callbacks[t] # NoCallback
    THEN << Event("call", callbacks[t], title, message) >>
    ELSE << >>

\* "if play_sound and self.sounds_enabled: self.play_sound(...)"
SoundEvents(t, play, title, message) ==
    IF play /\ soundsEnabled
    THEN << Event("sound", t, title, message) >>
    ELSE << >>

\* notify: nothing happens when notifications are disabled; otherwise the
\* toast is shown where toasts are available and show_toast does not raise,
\* then the sound, then the callback of the type
Notify ==
    /\ pc = "notifier" /\ Len(sent) < MaxNotify
    /\ \E t \in NotificationTypes, title \in Titles, message \in Messages,
          play \in BOOLEAN :
         /\ sent' = Append(sent, [type |-> t, title |-> title,
                                  message |-> message, cb |-> callbacks[t]])
         /\ IF ~notificationsEnabled
            THEN events' = events
            ELSE \E shown \in (IF toastAvailable THEN BOOLEAN ELSE {FALSE}) :
                   events' = events \o
                       (IF shown THEN << Event("toast", t, title, message) >>
                        ELSE << >>) \o
                       SoundEvents(t, play, title, message) \o
                       CallbackEvents(t, title, message)
    /\ UNCHANGED << impl, pc, idx, job, matcher, filter, selector, store,
                    backup, safeOp, download, batch, cthread, parallel,
                    soundsEnabled, notificationsEnabled, toastAvailable,
                    callbacks >>

\* set_sounds_enabled
SetSoundsEnabled ==
    /\ pc = "notifier"
    /\ \E enabled \in BOOLEAN : soundsEnabled' = enabled
    /\ UNCHANGED << impl, pc, idx, job, matcher, filter, selector, store,
                    backup, safeOp, download, batch, cthread, parallel,
                    notificationsEnabled, toastAvailable, callbacks, sent,
                    events >>

\* set_notifications_enabled
SetNotificationsEnabled ==
    /\ pc = "notifier"
    /\ \E enabled \in BOOLEAN : notificationsEnabled' = enabled
    /\ UNCHANGED << impl, pc, idx, job, matcher, filter, selector, store,
                    backup, safeOp, download, batch, cthread, parallel,
                    soundsEnabled, toastAvailable, callbacks, sent, events >>

\* register_callback
RegisterCallback ==
    /\ pc = "notifier"
    /\ \E t \in NotificationTypes, cb \in Callbacks :
         callbacks' = [callbacks EXCEPT ![t] = cb]
    /\ UNCHANGED << impl, pc, idx, job, matcher, filter, selector, store,
                    backup, safeOp, download, batch, cthread, parallel,
                    soundsEnabled, notificationsEnabled, toastAvailable, sent,
                    events >>

\* unregister_callback
UnregisterCallback ==
    /\ pc = "notifier"
    /\ \E t \in NotificationTypes :
         /\ callbacks[t] # NoCallback
         /\ callbacks' = [callbacks EXCEPT ![t] = NoCallback]
    /\ UNCHANGED << impl, pc, idx, job, matcher, filter, selector, store,
                    backup, safeOp, download, batch, cthread, parallel,
                    soundsEnabled, notificationsEnabled, toastAvailable, sent,
                    events >>

\* NotificationManager.__init__: toasts are there on win32 with win10toast
InitNotify ==
    /\ impl = "V2" /\ pc = "notifier" /\ idx = 0
    /\ soundsEnabled = TRUE /\ notificationsEnabled = TRUE
    /\ toastAvailable \in BOOLEAN
    /\ callbacks = [t \in NotificationTypes |-> NoCallback]
    /\ sent = << >> /\ events = << >>
    /\ SafeOpIdle
    /\ DownloadIdle
    /\ BatchIdle
    /\ CThreadIdle
    /\ ParallelIdle
    /\ JobIdle /\ MatcherIdle /\ FilterIdle /\ SelectorIdle
    /\ StoreIdle /\ BackupIdle

NextNotify ==
    \/ Notify \/ SetSoundsEnabled \/ SetNotificationsEnabled
    \/ RegisterCallback \/ UnregisterCallback

SpecNotify == InitNotify /\ [][NextNotify]_vars

----------------------------------------------------------------------------
(* ProjectManager                                                          *)

\* a caller creates at most MaxProjects projects
MaxProjects == 2

\* the values str(uuid.uuid4())[:8] takes; no value is drawn twice
ProjectIds == 1 .. MaxProjects

\* the names a caller gives its projects
ProjectNames == {"Proje 1", "Proje_1", "Canak"}

\* _sanitize_filename on ProjectNames: every character outside letters,
\* digits, "_" and "-" becomes "_"
SanitizeFilename(name) ==
    CASE name = "Proje 1" -> "Proje_1"
      [] OTHER -> name

\* f"{safe_name}_{project_id}", as the pair of its two parts
FolderName(name, id) == << SanitizeFilename(name), id >>

\* folder.name.endswith(f"_{project_id}") for an id of create_project
EndsWithId(folder, id) == folder[2] = id

\* the AntaresProject of create_project, as far as the callers look at it;
\* updated_at is the time of the call
AntaresProject(id, name, now) == [id |-> id, name |-> name, updated_at |-> now]

\* datetime.now() of the next call: later than every time before it
Now == Cardinality(made) + 1

\* _get_project_path: a folder whose name ends with the id, or none
GetProjectPath(id) == { f \in disk : EndsWithId(f.folder, id) }

\* faulty variant of Rmtree: nothing is removed
RmtreeKeeps(d, f) == d

\* shutil.rmtree(project_path)
Rmtree(d, f) == d \ {f}

\* the projects of a set of folders, newest first:
\* "projects.sort(key=lambda p: getattr(p, sort_by, ''), reverse=reverse)"
RECURSIVE NewestFirst(_)
NewestFirst(ps) ==
    IF ps = {} THEN << >>
    ELSE LET newest == CHOOSE q \in ps :
                         \A r \in ps : r.updated_at <= q.updated_at
         IN  << newest >> \o NewestFirst(ps \ {newest})

\* create_project: a new id, the folder with its subfolders, project.json
CreateProject ==
    /\ pc = "projects" /\ Cardinality(made) < MaxProjects
    /\ \E name \in ProjectNames, id \in ProjectIds \ { q.id : q \in made } :
         LET project == AntaresProject(id, name, Now)
         IN  /\ disk' = disk \cup {[folder |-> FolderName(name, id),
                                     meta |-> project]}
             /\ made' = made \cup {project}
             /\ answer' = Answer("create", id, << project >>, TRUE)
    /\ UNCHANGED << impl, pc, idx, job, matcher, filter, selector, notifier,
                    backup, safeOp, download, batch, cthread, parallel, gone >>

\* load_project: _load_metadata of the folder found, or None
LoadProject ==
    /\ pc = "projects"
    /\ \E id \in ProjectIds :
         answer' = Answer("load", id,
                          IF GetProjectPath(id) = {} THEN << >>
                          ELSE << (CHOOSE f \in GetProjectPath(id) : TRUE).meta >>,
                          TRUE)
    /\ UNCHANGED << impl, pc, idx, job, matcher, filter, selector, notifier,
                    backup, safeOp, download, batch, cthread, parallel, disk,
                    made, gone >>

\* delete_project: False without confirm or without a folder; otherwise
\* the folder is removed, or rmtree raises and False is returned
DeleteProject ==
    /\ pc = "projects"
    /\ \E id \in ProjectIds, confirm \in BOOLEAN :
         IF ~confirm \/ GetProjectPath(id) = {}
         THEN /\ answer' = Answer("delete", id, << >>, FALSE)
              /\ UNCHANGED << disk, gone >>
         ELSE \/ /\ disk' = Rmtree(disk, CHOOSE f \in GetProjectPath(id) : TRUE)
                 /\ gone' = gone \cup {id}
                 /\ answer' = Answer("delete", id, << >>, TRUE)
              \/ /\ answer' = Answer("delete", id, << >>, FALSE)
                 /\ UNCHANGED << disk, gone >>
    /\ UNCHANGED << impl, pc, idx, job, matcher, filter, selector, notifier,
                    backup, safeOp, download, batch, cthread, parallel, made >>

\* list_projects(): the metadata of every folder, sorted
ListProjects ==
    /\ pc = "projects"
    /\ answer' = Answer("list", 0, NewestFirst({ f.meta : f \in disk }), TRUE)
    /\ UNCHANGED << impl, pc, idx, job, matcher, filter, selector, notifier,
                    backup, safeOp, download, batch, cthread, parallel, disk,
                    made, gone >>

\* ProjectManager.__init__ on an empty directory
InitStore ==
    /\ impl = "V2" /\ pc = "projects" /\ idx = 0
    /\ StoreIdle
    /\ SafeOpIdle
    /\ DownloadIdle
    /\ BatchIdle
    /\ CThreadIdle
    /\ ParallelIdle
    /\ JobIdle /\ MatcherIdle /\ FilterIdle /\ SelectorIdle
    /\ NotifierIdle /\ BackupIdle

NextStore == CreateProject \/ LoadProject \/ DeleteProject \/ ListProjects

SpecStore == InitStore /\ [][NextStore]_vars

----------------------------------------------------------------------------
(* BackupManager                                                           *)

\* the backups of a project fall into at most MaxStamps different seconds
MaxStamps == 2

\* the seconds a run that only takes backups goes through
MaxSeconds == 7

\* MAX_BACKUPS_PER_PROJECT
MaxBackupsPerProject == 5

\* where a project directory can lie
Roots == { << "projects", "Test_1" >>, << "output", "Test_1" >> }

\* the files a project directory can hold, relative to it
RelPaths == { << "project.json" >>, << "output", "mesh.ply" >> }

\* "'output' in file_path.parts"
HasOutputPart(path) == \E k \in DOMAIN path : path[k] = "output"

\* faulty variant of ArcName: the file name without its directories
ArcNameFlat(path, dir) == << path[Len(path)] >>

\* file_path.relative_to(project_dir)
ArcName(path, dir) == SubSeq(path, Len(dir) + 1, Len(path))

\* the names the loop over project_dir.rglob('*') writes into the archive
Archived(full) ==
    { ArcName(root \o p, root) :
        p \in { q \in tree : full \/ ~HasOutputPart(root \o q) } }

\* faulty variant of CleanupOldBackups: backups[:-keep_count] is deleted,
\* the oldest backups stay
CleanupKeepsOldest(z) ==
    IF Cardinality(z) <= MaxBackupsPerProject THEN z
    ELSE { x \in z :
             Cardinality({ y \in z : y.stamp < x.stamp }) < MaxBackupsPerProject }

\* cleanup_old_backups: the MAX_BACKUPS_PER_PROJECT newest backups stay
CleanupOldBackups(z) ==
    IF Cardinality(z) <= MaxBackupsPerProject THEN z
    ELSE { x \in z :
             Cardinality({ y \in z : y.stamp > x.stamp }) < MaxBackupsPerProject }

\* the caller, or a job, writes a file into the project directory
WriteFile ==
    /\ pc = "backup" /\ present
    /\ \E p \in RelPaths \ tree : tree' = tree \cup {p}
    /\ UNCHANGED << impl, pc, idx, job, matcher, filter, selector, notifier,
                    store, safeOp, download, batch, cthread, parallel, root,
                    present, clock, zips, restored, backupLog >>

\* the caller removes the project directory
RemoveTree ==
    /\ pc = "backup" /\ present
    /\ present' = FALSE /\ tree' = {}
    /\ UNCHANGED << impl, pc, idx, job, matcher, filter, selector, notifier,
                    store, safeOp, download, batch, cthread, parallel, root,
                    clock, zips, restored, backupLog >>

\* the last second the clock of a run reaches
LastSecond == IF pc = "retention" THEN MaxSeconds ELSE MaxStamps

\* a second passes
Tick ==
    /\ pc \in {"backup", "retention"} /\ clock < LastSecond
    /\ clock' = clock + 1
    /\ UNCHANGED << impl, pc, idx, job, matcher, filter, selector, notifier,
                    store, safeOp, download, batch, cthread, parallel, root,
                    present, tree, zips, restored, backupLog >>

\* create_backup: None without a project directory; otherwise the archive
\* named after the second is written and the old backups are cleaned up, or
\* an exception removes the file of that name and None is returned
CreateBackup ==
    /\ pc \in {"backup", "retention"}
    /\ \E full \in BOOLEAN :
         IF ~present
         THEN /\ backupLog' = [backupLog EXCEPT !.failed = TRUE]
              /\ UNCHANGED zips
         ELSE \/ /\ zips' = CleanupOldBackups(
                               { x \in zips : x.stamp # clock } \cup
                               {[stamp |-> clock, arc |-> Archived(full),
                                 seen |-> tree, full |-> full]})
                 /\ backupLog' = [backupLog EXCEPT !.ok = @ \cup {clock}]
              \/ /\ zips' = { x \in zips : x.stamp # clock }
                 /\ backupLog' = [backupLog EXCEPT !.failed = TRUE]
    /\ UNCHANGED << impl, pc, idx, job, matcher, filter, selector, notifier,
                    store, safeOp, download, batch, cthread, parallel, root,
                    present, tree, clock, restored >>

\* restore_backup(backup_path, restore_dir) into a directory that is not
\* there yet: None without the backup file; otherwise the archive is
\* extracted and project.json rewritten, or an exception leaves a part of
\* the files and None is returned
RestoreBackup ==
    /\ pc = "backup"
    /\ \E stamp \in 1 .. MaxStamps :
         IF \A x \in zips : x.stamp # stamp
         THEN restored' = Restored(FALSE, stamp, {}, FALSE, {})
         ELSE LET z == CHOOSE x \in zips : x.stamp = stamp
              IN  \/ restored' = Restored(TRUE, stamp, z.seen, z.full, z.arc)
                  \/ \E part \in SUBSET z.arc :
                       restored' = Restored(FALSE, stamp, z.seen, z.full, part)
    /\ UNCHANGED << impl, pc, idx, job, matcher, filter, selector, notifier,
                    store, safeOp, download, batch, cthread, parallel, root,
                    present, tree, clock, zips, backupLog >>

\* restore_backup(backup_path) without restore_dir: the place is read from
\* project.json of the archive; an existing directory is not written into
\* without overwrite, the files go to a new directory beside it
RestoreInPlace ==
    /\ pc = "backup"
    /\ \E stamp \in 1 .. MaxStamps, overwrite \in BOOLEAN :
         IF \A x \in zips : x.stamp # stamp
         THEN restored' = Restored(FALSE, stamp, {}, FALSE, {})
              /\ UNCHANGED << present, tree >>
         ELSE LET z == CHOOSE x \in zips : x.stamp = stamp
              IN  IF << "project.json" >> \notin z.arc
                  THEN restored' = Restored(FALSE, stamp, z.seen, z.full, {})
                       /\ UNCHANGED << present, tree >>
                  ELSE IF present /\ ~overwrite
                  THEN restored' = Restored(TRUE, stamp, z.seen, z.full, z.arc)
                       /\ UNCHANGED << present, tree >>
                  ELSE /\ present' = TRUE
                       /\ tree' = tree \cup z.arc
                       /\ restored' = Restored(TRUE, stamp, z.seen, z.full,
                                               tree \cup z.arc)
    /\ UNCHANGED << impl, pc, idx, job, matcher, filter, selector, notifier,
                    store, safeOp, download, batch, cthread, parallel, root,
                    clock, zips, backupLog >>

\* a BackupManager without backups and an empty project directory
InitBackup ==
    /\ impl = "V2" /\ pc = "backup" /\ idx = 0
    /\ root \in Roots /\ present = TRUE /\ tree = {}
    /\ clock = 1 /\ zips = {}
    /\ restored = Restored(FALSE, 0, {}, FALSE, {})
    /\ backupLog = NoBackupLog
    /\ SafeOpIdle
    /\ DownloadIdle
    /\ BatchIdle
    /\ CThreadIdle
    /\ ParallelIdle
    /\ JobIdle /\ MatcherIdle /\ FilterIdle /\ SelectorIdle
    /\ NotifierIdle /\ StoreIdle

NextBackup ==
    \/ WriteFile \/ RemoveTree \/ Tick
    \/ CreateBackup \/ RestoreBackup \/ RestoreInPlace

SpecBackup == InitBackup /\ [][NextBackup]_vars

\* a BackupManager without backups whose caller only takes backups of a
\* project directory that holds its project.json
InitRetention ==
    /\ impl = "V2" /\ pc = "retention" /\ idx = 0
    /\ root \in Roots /\ present = TRUE /\ tree = {<< "project.json" >>}
    /\ clock = 1 /\ zips = {}
    /\ restored = Restored(FALSE, 0, {}, FALSE, {})
    /\ backupLog = NoBackupLog
    /\ SafeOpIdle
    /\ DownloadIdle
    /\ BatchIdle
    /\ CThreadIdle
    /\ ParallelIdle
    /\ JobIdle /\ MatcherIdle /\ FilterIdle /\ SelectorIdle
    /\ NotifierIdle /\ StoreIdle

NextRetention == Tick \/ CreateBackup

SpecRetention == InitRetention /\ [][NextRetention]_vars

----------------------------------------------------------------------------
(* SafeOperation.execute                                                   *)

\* the exception classes a callable can raise: classes under Exception, and
\* classes under BaseException only
ExceptionKinds == {"ValueError", "Exception"}
BaseOnlyKinds == {"KeyboardInterrupt"}

\* the callables passed as func
Funcs ==
    { Callable("returns", "none", v) : v \in {"8"} } \cup
    { Callable("raises", "ValueError", "Test hatasi"),
      Callable("raises", "Exception", "Hata"),
      Callable("raises", "KeyboardInterrupt", "") }

\* the callables passed as error_callback or finally_callback, and None
Callbacks0 ==
    { NoCallable, Callable("returns", "none", ""),
      Callable("raises", "Exception", "callback"),
      Callable("raises", "KeyboardInterrupt", "") }

\* the values passed as default_return; "" stands for None
Defaults == {"", "default"}

\* OperationResult(success, result, error_message, status)
OperationResult(success, result, message, status) ==
    [success |-> success, result |-> result, error_message |-> message,
     status |-> status]

\* faulty variant of CaughtByExcept: "except:" in place of
\* "except Exception as e"
CaughtByBareExcept(kind) == TRUE

\* "except Exception as e": the classes the handler of execute catches
CaughtByExcept(kind) == kind \in ExceptionKinds

\* faulty variant of GuardedCall: the callback is called without its
\* try block
UnguardedCall(cb) ==
    IF cb.does = "raises" THEN [kind |-> cb.kind, message |-> cb.value]
    ELSE NoError

\* "try: callback(...) except: pass": what leaves the guarded call
GuardedCall(cb) == NoError

\* "try: result = func(); return OperationResult(success=True, ...)"
Execute_Try ==
    /\ pc = "execute"
    /\ LET f == opCall.func
       IN  IF f.does = "returns"
           THEN /\ opResult' = OperationResult(TRUE, f.value, "", "completed")
                /\ pc' = "execute_finally"
                /\ UNCHANGED << opError, opRaised >>
           ELSE IF CaughtByExcept(f.kind)
           THEN /\ opError' = [kind |-> f.kind, message |-> f.value]
                /\ pc' = "execute_except"
                /\ UNCHANGED << opResult, opRaised >>
           ELSE /\ opRaised' = [kind |-> f.kind, message |-> f.value]
                /\ pc' = "execute_finally"
                /\ UNCHANGED << opError, opResult >>
    /\ UNCHANGED << impl, idx, job, matcher, filter, selector, notifier, store,
                    backup, download, batch, cthread, parallel, opCall,
                    opLog >>

\* the except block: the error callback is called if there is one, then
\* the failed OperationResult is the value to return
Execute_Except ==
    /\ pc = "execute_except"
    /\ LET cb == opCall.error_callback
       IN  IF cb.does = "absent"
           THEN /\ opResult' = OperationResult(FALSE, opCall.default_return,
                                               opError.message, "error")
                /\ pc' = "execute_finally"
                /\ UNCHANGED << opRaised, opLog >>
           ELSE /\ opLog' = Append(opLog, "error_callback")
                /\ opRaised' = GuardedCall(cb)
                /\ IF GuardedCall(cb) = NoError
                   THEN opResult' = OperationResult(FALSE,
                                        opCall.default_return,
                                        opError.message, "error")
                   ELSE UNCHANGED opResult
                /\ pc' = "execute_finally"
    /\ UNCHANGED << impl, idx, job, matcher, filter, selector, notifier, store,
                    backup, download, batch, cthread, parallel, opCall,
                    opError >>

\* the finally block: the finally callback is called if there is one; then
\* execute returns its result, or the exception under way leaves it
Execute_Finally ==
    /\ pc = "execute_finally"
    /\ LET cb == opCall.finally_callback
       IN  IF cb.does = "absent"
           THEN UNCHANGED << opRaised, opLog >>
           ELSE /\ opLog' = Append(opLog, "finally_callback")
                /\ opRaised' = IF GuardedCall(cb) = NoError THEN opRaised
                               ELSE GuardedCall(cb)
    /\ pc' = "execute_done"
    /\ UNCHANGED << impl, idx, job, matcher, filter, selector, notifier, store,
                    backup, download, batch, cthread, parallel, opCall,
                    opError, opResult >>

\* a call SafeOperation.execute(func, error_callback, finally_callback,
\* default_return) is entered
InitSafeOp ==
    /\ impl = "V2" /\ pc = "execute" /\ idx = 0
    /\ opCall \in [func : Funcs, error_callback : Callbacks0,
                    finally_callback : Callbacks0, default_return : Defaults]
    /\ opError = NoError /\ opResult = NoResult /\ opRaised = NoError
    /\ opLog = << >>
    /\ DownloadIdle
    /\ BatchIdle
    /\ CThreadIdle
    /\ ParallelIdle
    /\ JobIdle /\ MatcherIdle /\ FilterIdle /\ SelectorIdle
    /\ NotifierIdle /\ StoreIdle /\ BackupIdle

NextSafeOp == Execute_Try \/ Execute_Except \/ Execute_Finally

SpecSafeOp == InitSafeOp /\ [][NextSafeOp]_vars

----------------------------------------------------------------------------
(* Esp32Client.download_scan                                               *)

\* the largest count download_scan is called with
MaxDownloads == 3

\* the values of concurrency download_scan is called with
Concurrencies == {1, 3}

\* the _download_one calls that have returned
DL_Done == { i \in DOMAIN dlTask :
               dlTask[i] \in {"ok", "http", "error", "cancelled"} }

\* the _download_one calls a worker thread is in
DL_Running == { i \in DOMAIN dlTask : dlTask[i] \in {"get", "write"} }

\* the futures as_completed has handed over
DL_Collected == { dlLog[k].i : k \in DOMAIN dlLog }

\* faulty variant of DL_Fp: the path is returned whatever the outcome
DL_FpAlways(i, outcome) == i

\* the second member of the tuple _download_one returns: the path, or None
DL_Fp(i, outcome) == IF outcome = "ok" THEN i ELSE -1

\* stop_flag() comes to return True
DL_Stop ==
    /\ pc = "download" /\ dlStop = FALSE
    /\ dlStop' = TRUE
    /\ UNCHANGED << impl, pc, idx, job, matcher, filter, selector, notifier,
                    store, backup, safeOp, batch, cthread, parallel, dlTotal,
                    dlWorkers, dlTask, dlDisk, dlFiles, dlLog >>

\* a free worker thread takes the next submitted call from the queue of
\* the pool and enters _download_one: "if stop_flag(): return ..."
DL_Begin ==
    /\ pc = "download"
    /\ Cardinality(DL_Running) < dlWorkers
    /\ \E i \in DOMAIN dlTask :
         /\ dlTask[i] = "queued"
         /\ \A j \in DOMAIN dlTask : j < i => dlTask[j] # "queued"
         /\ dlTask' = [dlTask EXCEPT
                         ![i] = IF dlStop THEN "cancelled" ELSE "get"]
    /\ UNCHANGED << impl, pc, idx, job, matcher, filter, selector, notifier,
                    store, backup, safeOp, batch, cthread, parallel, dlTotal,
                    dlWorkers, dlStop, dlDisk, dlFiles, dlLog >>

\* self.session.get(url, ...): an exception, a status other than 200, or
\* status 200 and the file is opened for writing
DL_Get ==
    /\ pc = "download"
    /\ \E i \in DOMAIN dlTask :
         /\ dlTask[i] = "get"
         /\ \/ /\ dlTask' = [dlTask EXCEPT ![i] = "write"]
               /\ dlDisk' = dlDisk \cup {i}
            \/ /\ \E e \in {"http", "error"} :
                    dlTask' = [dlTask EXCEPT ![i] = e]
               /\ UNCHANGED dlDisk
    /\ UNCHANGED << impl, pc, idx, job, matcher, filter, selector, notifier,
                    store, backup, safeOp, batch, cthread, parallel, dlTotal,
                    dlWorkers, dlStop, dlFiles, dlLog >>

\* the loop over r.iter_content: the stop flag is found set, an exception
\* is raised, or the last chunk is written and the path returned
DL_Write ==
    /\ pc = "download"
    /\ \E i \in DOMAIN dlTask :
         /\ dlTask[i] = "write"
         /\ \/ dlStop /\ dlTask' = [dlTask EXCEPT ![i] = "cancelled"]
            \/ dlTask' = [dlTask EXCEPT ![i] = "error"]
            \/ dlTask' = [dlTask EXCEPT ![i] = "ok"]
    /\ UNCHANGED << impl, pc, idx, job, matcher, filter, selector, notifier,
                    store, backup, safeOp, batch, cthread, parallel, dlTotal,
                    dlWorkers, dlStop, dlDisk, dlFiles, dlLog >>

\* one turn of "for fut in as_completed(futs)": a finished future is handed
\* over, its path, if it has one, appended to files
DL_Collect ==
    /\ pc = "download"
    /\ \E i \in DL_Done \ DL_Collected :
         /\ dlLog' = Append(dlLog, [i |-> i, fp |-> DL_Fp(i, dlTask[i])])
         /\ dlFiles' = IF DL_Fp(i, dlTask[i]) # -1
                       THEN Append(dlFiles, DL_Fp(i, dlTask[i]))
                       ELSE dlFiles
    /\ UNCHANGED << impl, pc, idx, job, matcher, filter, selector, notifier,
                    store, backup, safeOp, batch, cthread, parallel, dlTotal,
                    dlWorkers, dlStop, dlTask, dlDisk >>

\* "if total <= 0: return []", or the loop has ended: "files.sort()" and
\* "return files"
DL_Return ==
    /\ pc = "download"
    /\ DL_Collected = DOMAIN dlTask
    /\ dlFiles' = Sorted(dlFiles)
    /\ pc' = "download_done"
    /\ UNCHANGED << impl, idx, job, matcher, filter, selector, notifier, store,
                    backup, safeOp, batch, cthread, parallel, dlTotal,
                    dlWorkers, dlStop, dlTask, dlDisk, dlLog >>

\* download_scan(session_id, count, out_dir, ...) on an empty out_dir, up
\* to the submission of the _download_one calls
InitDownload ==
    /\ impl = "RW" /\ pc = "download" /\ idx = 0
    /\ dlTotal \in 0 .. MaxDownloads /\ dlWorkers \in Concurrencies
    /\ dlStop = FALSE
    /\ dlTask = [i \in 0 .. dlTotal - 1 |-> "queued"]
    /\ dlDisk = {} /\ dlFiles = << >> /\ dlLog = << >>
    /\ SafeOpIdle
    /\ BatchIdle
    /\ CThreadIdle
    /\ ParallelIdle
    /\ JobIdle /\ MatcherIdle /\ FilterIdle /\ SelectorIdle
    /\ NotifierIdle /\ StoreIdle /\ BackupIdle

NextDownload ==
    \/ DL_Stop \/ DL_Begin \/ DL_Get \/ DL_Write \/ DL_Collect
    \/ DL_Return

SpecDownload == InitDownload /\ [][NextDownload]_vars

----------------------------------------------------------------------------
(* BatchProcessor                                                          *)

\* the most jobs a queue gets
MaxJobs == 2

\* the job types add_job is called with, and those among them that have a
\* handler in _handlers
JobTypes == {"download", "unknown"}
HandledTypes == {"download"}

\* BatchJob(id, name, job_type, params) with its JobThread: "none" before
\* there is one, "running" while run() is executing, "ended_ok" and
\* "ended_error" when run() has returned and the finished signal waits in
\* the event loop, "joined" when on_finished has run
BatchJob(type) == [type |-> type, status |-> "pending", thread |-> "none"]

\* the jobs of the queue with one of the given statuses
BP_WithStatus(b, statuses) ==
    { i \in DOMAIN b.jobs : b.jobs[i].status \in statuses }

\* job_completed.emit(job.id, ...): the emission is recorded, and recorded
\* as late when cancel() has found this job running before
BP_EmitJobCompleted(b, i) ==
    [b EXCEPT !.reported = @ \cup {i},
              !.late = IF i \in b.cancelled THEN @ \cup {i} ELSE @]

\* _process_next and _run_job, as far as they run without returning to
\* the event loop: nothing when not running or paused; without a pending
\* job _running is cleared and all_completed emitted; a job without a
\* handler is failed and the next one taken; a job with a handler becomes
\* RUNNING and its thread is started
RECURSIVE BP_ProcessNext(_)
BP_ProcessNext(b) ==
    IF ~b.running \/ b.paused THEN b
    ELSE IF BP_WithStatus(b, {"pending"}) = {}
    THEN [b EXCEPT !.running = FALSE,
                   !.allCompleted =
                       [emitted |-> TRUE,
                        busy |-> BP_WithStatus(b, {"pending", "running"})]]
    ELSE LET i == CHOOSE k \in BP_WithStatus(b, {"pending"}) :
                      \A l \in BP_WithStatus(b, {"pending"}) : k <= l
         IN  IF b.jobs[i].type \notin HandledTypes
             THEN BP_ProcessNext(BP_EmitJobCompleted(
                      [b EXCEPT !.jobs[i].status = "failed"], i))
             ELSE [b EXCEPT !.jobs[i].status = "running",
                            !.jobs[i].thread = "running",
                            !.current = i]

\* add_job(name, job_type, params)
BP_AddJob ==
    /\ pc = "batch" /\ Len(bp.jobs) < MaxJobs
    /\ \E type \in JobTypes :
         bp' = [bp EXCEPT !.jobs = Append(@, BatchJob(type))]
    /\ UNCHANGED << impl, pc, idx, job, matcher, filter, selector, notifier,
                    store, backup, safeOp, download, cthread, parallel >>

\* start()
BP_Start ==
    /\ pc = "batch"
    /\ bp' = IF bp.running THEN bp
             ELSE BP_ProcessNext([bp EXCEPT !.running = TRUE,
                                            !.paused = FALSE])
    /\ UNCHANGED << impl, pc, idx, job, matcher, filter, selector, notifier,
                    store, backup, safeOp, download, cthread, parallel >>

\* pause()
BP_Pause ==
    /\ pc = "batch"
    /\ bp' = [bp EXCEPT !.paused = TRUE]
    /\ UNCHANGED << impl, pc, idx, job, matcher, filter, selector, notifier,
                    store, backup, safeOp, download, cthread, parallel >>

\* resume()
BP_Resume ==
    /\ pc = "batch"
    /\ bp' = IF bp.paused
             THEN BP_ProcessNext([bp EXCEPT !.paused = FALSE])
             ELSE bp
    /\ UNCHANGED << impl, pc, idx, job, matcher, filter, selector, notifier,
                    store, backup, safeOp, download, cthread, parallel >>

\* what terminate() and wait(2000) leave of the thread they are called on:
\* it has ended without having set its error, or it is still running
Terminated == {"ended_ok", "running"}

\* cancel(): _running is cleared, the current thread terminated if it is
\* running, and every RUNNING job becomes CANCELLED
BP_Cancel ==
    /\ pc = "batch"
    /\ \E after \in Terminated :
         LET c == bp.current
             killed == IF c # 0 /\ bp.jobs[c].thread = "running"
                       THEN [bp EXCEPT !.jobs[c].thread = after]
                       ELSE bp
             found == BP_WithStatus(bp, {"running"})
         IN  bp' = [killed EXCEPT
                      !.running = FALSE,
                      !.cancelled = @ \cup found,
                      !.jobs = [i \in DOMAIN killed.jobs |->
                                  IF i \in found
                                  THEN [killed.jobs[i] EXCEPT
                                          !.status = "cancelled"]
                                  ELSE killed.jobs[i]]]
    /\ UNCHANGED << impl, pc, idx, job, matcher, filter, selector, notifier,
                    store, backup, safeOp, download, cthread, parallel >>

\* JobThread.run returns: the handler has returned, or raised and
\* self.error is set; the finished signal is emitted
BP_ThreadEnds ==
    /\ pc = "batch"
    /\ \E i \in DOMAIN bp.jobs, ended \in {"ended_ok", "ended_error"} :
         /\ bp.jobs[i].thread = "running"
         /\ bp' = [bp EXCEPT !.jobs[i].thread = ended]
    /\ UNCHANGED << impl, pc, idx, job, matcher, filter, selector, notifier,
                    store, backup, safeOp, download, cthread, parallel >>

\* on_finished, run by the event loop for a thread that has ended: the
\* job becomes FAILED or COMPLETED, job_completed is emitted, and
\* _process_next is called
BP_OnFinished ==
    /\ pc = "batch"
    /\ \E i \in DOMAIN bp.jobs :
         /\ bp.jobs[i].thread \in {"ended_ok", "ended_error"}
         /\ bp' = BP_ProcessNext(BP_EmitJobCompleted(
                     [bp EXCEPT
                        !.jobs[i].status =
                            IF bp.jobs[i].thread = "ended_error"
                            THEN "failed" ELSE "completed",
                        !.jobs[i].thread = "joined"], i))
    /\ UNCHANGED << impl, pc, idx, job, matcher, filter, selector, notifier,
                    store, backup, safeOp, download, cthread, parallel >>

\* a BatchProcessor after __init__ and register_handler
InitBatch ==
    /\ impl = "V2" /\ pc = "batch" /\ idx = 0
    /\ bp = NewBatchProcessor
    /\ DownloadIdle
    /\ SafeOpIdle
    /\ CThreadIdle
    /\ ParallelIdle
    /\ JobIdle /\ MatcherIdle /\ FilterIdle /\ SelectorIdle
    /\ NotifierIdle /\ StoreIdle /\ BackupIdle

NextBatch ==
    \/ BP_AddJob \/ BP_Start \/ BP_Pause \/ BP_Resume \/ BP_Cancel
    \/ BP_ThreadEnds \/ BP_OnFinished

SpecBatch == InitBatch /\ [][NextBatch]_vars

----------------------------------------------------------------------------
(* CancellableThread                                                       *)

\* the most safe_run calls made on one thread
MaxRuns == 2

\* SafeOperation.execute(func, error_callback) as safe_run calls it: the
\* result it returns, or NoResult when the exception leaves it
ExecuteReturns(f) ==
    IF f.does = "returns"
    THEN OperationResult(TRUE, f.value, "", "completed")
    ELSE IF CaughtByExcept(f.kind)
    THEN OperationResult(FALSE, "", f.value, "error")
    ELSE NoResult

\* cancel()
CT_Cancel ==
    /\ pc = "thread"
    /\ ctIsCancelled' = TRUE /\ ctStatus' = "cancelled"
    /\ ctEmitted' = "cancelled"
    /\ UNCHANGED << impl, pc, idx, job, matcher, filter, selector, notifier,
                    store, backup, safeOp, download, batch, parallel,
                    ctIsPaused, ctCall, ctFunc, ctResult, ctErrorLog >>

\* pause()
CT_Pause ==
    /\ pc = "thread"
    /\ ctIsPaused' = TRUE /\ ctEmitted' = "paused"
    /\ UNCHANGED << impl, pc, idx, job, matcher, filter, selector, notifier,
                    store, backup, safeOp, download, batch, parallel, ctStatus,
                    ctIsCancelled, ctCall, ctFunc, ctResult, ctErrorLog >>

\* resume()
CT_Resume ==
    /\ pc = "thread"
    /\ ctIsPaused' = FALSE /\ ctEmitted' = "running"
    /\ UNCHANGED << impl, pc, idx, job, matcher, filter, selector, notifier,
                    store, backup, safeOp, download, batch, parallel, ctStatus,
                    ctIsCancelled, ctCall, ctFunc, ctResult, ctErrorLog >>

\* safe_run(func) is entered: "self._status = OperationStatus.RUNNING",
\* status_changed is emitted and SafeOperation.execute calls func
CT_SafeRunBegin ==
    /\ pc = "thread" /\ ctCall # "in_func" /\ idx < MaxRuns
    /\ idx' = idx + 1
    /\ \E f \in Funcs : ctFunc' = f
    /\ ctStatus' = "running" /\ ctEmitted' = "running"
    /\ ctCall' = "in_func" /\ ctResult' = NoResult
    /\ UNCHANGED << impl, pc, job, matcher, filter, selector, notifier, store,
                    backup, safeOp, download, batch, parallel, ctIsCancelled,
                    ctIsPaused, ctErrorLog >>

\* func has returned or raised: execute returns its result, safe_run sets
\* COMPLETED "if result.success" and returns the result, or the exception
\* execute does not catch leaves safe_run
CT_SafeRunEnd ==
    /\ pc = "thread" /\ ctCall = "in_func"
    /\ IF ExecuteReturns(ctFunc) = NoResult
       THEN /\ ctCall' = "raised"
            /\ UNCHANGED << ctStatus, ctEmitted, ctResult, ctErrorLog >>
       ELSE /\ ctCall' = "returned"
            /\ ctResult' = ExecuteReturns(ctFunc)
            /\ IF ExecuteReturns(ctFunc).success
               THEN /\ ctStatus' = "completed" /\ ctEmitted' = "completed"
                    /\ UNCHANGED ctErrorLog
               ELSE /\ ctErrorLog' = Append(ctErrorLog, ctFunc.value)
                    /\ UNCHANGED << ctStatus, ctEmitted >>
    /\ UNCHANGED << impl, pc, idx, job, matcher, filter, selector, notifier,
                    store, backup, safeOp, download, batch, parallel,
                    ctIsCancelled, ctIsPaused, ctFunc >>

\* a CancellableThread after __init__
InitCThread ==
    /\ impl = "V2" /\ pc = "thread" /\ idx = 0
    /\ NewCancellableThread
    /\ BatchIdle
    /\ DownloadIdle
    /\ SafeOpIdle
    /\ ParallelIdle
    /\ JobIdle /\ MatcherIdle /\ FilterIdle /\ SelectorIdle
    /\ NotifierIdle /\ StoreIdle /\ BackupIdle

NextCThread ==
    \/ CT_Cancel \/ CT_Pause \/ CT_Resume
    \/ CT_SafeRunBegin \/ CT_SafeRunEnd

SpecCThread == InitCThread /\ [][NextCThread]_vars

----------------------------------------------------------------------------
(* extract_features_parallel                                               *)

\* the most images extract_features_parallel is called with
MaxImages == 2

\* a wrap call: where it is, and the value it has read or computed
WrapCall(at, value) == [at |-> at, value |-> value]

\* "100.0 * done / max(1, total)", rounded down to a whole number
PF_Percent(d) == (100 * d) \div (IF pfTotal >= 1 THEN pfTotal ELSE 1)

\* the wrap calls a thread is executing
PF_Running ==
    { i \in DOMAIN pfTask :
        pfTask[i].at \in {"extract", "load", "store", "arg", "call"} }

\* a free thread takes the next wrap call
PF_Begin ==
    /\ pc = "parallel"
    /\ Cardinality(PF_Running) < pfWorkers
    /\ \E i \in DOMAIN pfTask :
         /\ pfTask[i].at = "queued"
         /\ \A j \in DOMAIN pfTask : j < i => pfTask[j].at # "queued"
         /\ pfTask' = [pfTask EXCEPT ![i] = WrapCall("extract", 0)]
    /\ UNCHANGED << impl, pc, idx, job, matcher, filter, selector, notifier,
                    store, backup, safeOp, download, batch, cthread, pfTotal,
                    pfWorkers, pfDone, pfProgress >>

\* "out = _extract_one(gray, cfg)"
PF_Extract ==
    /\ pc = "parallel"
    /\ \E i \in DOMAIN pfTask :
         /\ pfTask[i].at = "extract"
         /\ pfTask' = [pfTask EXCEPT ![i] = WrapCall("load", 0)]
    /\ UNCHANGED << impl, pc, idx, job, matcher, filter, selector, notifier,
                    store, backup, safeOp, download, batch, cthread, pfTotal,
                    pfWorkers, pfDone, pfProgress >>

\* "done += 1", first half: the thread reads done
PF_Load ==
    /\ pc = "parallel"
    /\ \E i \in DOMAIN pfTask :
         /\ pfTask[i].at = "load"
         /\ pfTask' = [pfTask EXCEPT ![i] = WrapCall("store", pfDone)]
    /\ UNCHANGED << impl, pc, idx, job, matcher, filter, selector, notifier,
                    store, backup, safeOp, download, batch, cthread, pfTotal,
                    pfWorkers, pfDone, pfProgress >>

\* "done += 1", second half: the thread writes the value it has read,
\* plus one
PF_Store ==
    /\ pc = "parallel"
    /\ \E i \in DOMAIN pfTask :
         /\ pfTask[i].at = "store"
         /\ pfDone' = pfTask[i].value + 1
         /\ pfTask' = [pfTask EXCEPT ![i] = WrapCall("arg", 0)]
    /\ UNCHANGED << impl, pc, idx, job, matcher, filter, selector, notifier,
                    store, backup, safeOp, download, batch, cthread, pfTotal,
                    pfWorkers, pfProgress >>

\* the argument of progress_cb is computed from done as it is now
PF_Arg ==
    /\ pc = "parallel"
    /\ \E i \in DOMAIN pfTask :
         /\ pfTask[i].at = "arg"
         /\ pfTask' = [pfTask EXCEPT
                         ![i] = WrapCall("call", PF_Percent(pfDone))]
    /\ UNCHANGED << impl, pc, idx, job, matcher, filter, selector, notifier,
                    store, backup, safeOp, download, batch, cthread, pfTotal,
                    pfWorkers, pfDone, pfProgress >>

\* progress_cb is called with the value computed, and wrap returns
PF_Call ==
    /\ pc = "parallel"
    /\ \E i \in DOMAIN pfTask :
         /\ pfTask[i].at = "call"
         /\ pfProgress' = Append(pfProgress, pfTask[i].value)
         /\ pfTask' = [pfTask EXCEPT ![i] = WrapCall("returned", 0)]
    /\ UNCHANGED << impl, pc, idx, job, matcher, filter, selector, notifier,
                    store, backup, safeOp, download, batch, cthread, pfTotal,
                    pfWorkers, pfDone >>

\* Parallel(...) has collected every wrap call: "return feats"
PF_Return ==
    /\ pc = "parallel"
    /\ \A i \in DOMAIN pfTask : pfTask[i].at = "returned"
    /\ pc' = "parallel_done"
    /\ UNCHANGED << impl, idx, job, matcher, filter, selector, notifier,
                    store, backup, safeOp, download, batch, cthread,
                    parallel >>

\* extract_features_parallel(bgr_images, cfg, n_jobs, progress_cb) with a
\* progress callback, up to the start of Parallel
InitParallel ==
    /\ impl = "TR" /\ pc = "parallel" /\ idx = 0
    /\ pfTotal \in 0 .. MaxImages /\ pfWorkers \in 1 .. MaxImages
    /\ pfDone = 0
    /\ pfTask = [i \in 1 .. pfTotal |-> WrapCall("queued", 0)]
    /\ pfProgress = << >>
    /\ CThreadIdle
    /\ BatchIdle
    /\ DownloadIdle
    /\ SafeOpIdle
    /\ JobIdle /\ MatcherIdle /\ FilterIdle /\ SelectorIdle
    /\ NotifierIdle /\ StoreIdle /\ BackupIdle

NextParallel ==
    \/ PF_Begin \/ PF_Extract \/ PF_Load \/ PF_Store \/ PF_Arg
    \/ PF_Call \/ PF_Return

SpecParallel == InitParallel /\ [][NextParallel]_vars

----------------------------------------------------------------------------
(* Properties                                                              *)

\* failures delivered to the caller: emissions on the error channel, and for
\* Photogrammetry3DThread the emissions of finished with an empty path
Failures ==
    Len(errorLog) +
    (IF impl = "P3D"
     THEN Cardinality({k \in DOMAIN finishedLog : finishedLog[k] = ""})
     ELSE 0)

\* results delivered to the caller: emissions on the result channel, and for
\* Photogrammetry3DThread the emissions of finished with a path
Results ==
    Len(resultLog) +
    (IF impl = "P3D"
     THEN Cardinality({k \in DOMAIN finishedLog : finishedLog[k] # ""})
     ELSE 0)

\* the images joined to the images of S by a chain of the pairs of E
RECURSIVE ReachVia(_, _)
ReachVia(E, S) ==
    LET T == S \cup { e[2] : e \in { m \in E : m[1] \in S } }
               \cup { e[1] : e \in { m \in E : m[2] \in S } }
    IN  IF T = S THEN S ELSE ReachVia(E, T)

\* the positions of a job that lie behind the initialisation of the pose map
PosesInitialised ==
    /\ impl \in {"RW", "P3D"}
    /\ pc \in {"pose", "triangulate", "points_gate", "cloud", "write_pc",
               "mesh", "write_mesh", "emit", "export"}

\* the pair the pose loop is looking at
CurrentPair ==
    IF impl = "P3D" THEN << matches[idx].i, matches[idx].j >>
    ELSE << idx - 1, idx >>

\* C1: if cancellation is requested at any moment before the export stage
\* starts, the run writes no output file.
C1_NoFileAfterCancel ==
    (impl = "RW" /\ cancelAt = "before") => files = {}

\* C2: a run that observed a cancellation ends in a state of its own,
\* Cancelled: it has delivered neither an error nor a result.
C2_CancelledIsNeitherFailedNorCompleted ==
    (impl \in {"RW", "TR"} /\ pc = "done" /\ cancelSeen) =>
        (errorLog = << >> /\ resultLog = << >>)

\* C3: a run never delivers more than one failure or result; a run that met a
\* fatal condition has delivered exactly one failure and no result; a run
\* that has ended has delivered exactly one of the two.
C3_ExactlyOneOutcome ==
    impl \in {"RW", "P3D", "TR"} =>
        /\ Failures + Results <= 1
        /\ raised # "none" => (Failures = 1 /\ Results = 0)
        /\ pc = "done" => Failures + Results = 1

C3_Witness ==
    /\ impl = "RW" /\ pc = "done"
    /\ raised = "Nokta Bulutu Zayif"
    /\ errorLog = << "Nokta Bulutu Zayif" >> /\ resultLog = << >>

\* C4: once the pose map is initialised image 0 has a pose, and every image
\* with a pose is joined to image 0 by a chain of recorded matches.
C4_PosedImagesReachFirst ==
    /\ PosesInitialised => 0 \in DOMAIN poses
    /\ (impl \in {"RW", "P3D"} /\ DOMAIN poses # {}) =>
           LET joined == ReachVia(MatchKeys, {0})
           IN  \A k \in DOMAIN poses : k \in joined

C4_Witness ==
    /\ impl = "RW" /\ pc = "triangulate"
    /\ Cardinality(DOMAIN poses) >= 3
    /\ Cardinality(DOMAIN poses) < Len(feats)

\* C5: when the pose loop gets a relative pose for a recorded match (i, j) of
\* which exactly one image has a pose, the other image gets one: the relative
\* pose composed with the pose of i when i is the known one, its inverse
\* composed with the pose of j when j is the known one.
C5_PoseComposition ==
    [][ (impl \in {"RW", "P3D"} /\ pc = "pose" /\ idx' = idx + 1
            /\ rel' # NoRel) =>
        LET i == CurrentPair[1]
            j == CurrentPair[2]
        IN  /\ (i \in DOMAIN poses /\ j \notin DOMAIN poses) =>
                   /\ j \in DOMAIN poses'
                   /\ poses'[j] = Compose(rel', poses[i])
            /\ (j \in DOMAIN poses /\ i \notin DOMAIN poses) =>
                   /\ i \in DOMAIN poses'
                   /\ poses'[i] = Compose(Inverse(rel'), poses[j]) ]_vars

\* C6: the pose of image 0 is the identity from the moment the pose map
\* exists, and no step changes or removes a pose that is set: the pose map
\* only grows.
C6_PosesOnlyGrow ==
    [][ impl = "RW" =>
        /\ DOMAIN poses' # {} =>
               (0 \in DOMAIN poses' /\ poses'[0] = IdentityPose)
        /\ \A k \in DOMAIN poses :
               k \in DOMAIN poses' /\ poses'[k] = poses[k] ]_vars

C6_Witness ==
    /\ impl = "RW" /\ pc = "triangulate"
    /\ wrapMatch /\ << Len(feats) - 1, 0 >> \in MatchKeys
    /\ Cardinality(DOMAIN poses) >= 3

\* C7: a job given fewer than 8 images ends with an error reported to the
\* caller and no file written.
C7_FewImagesRejected ==
    (impl \in {"RW", "TR", "V2"} /\ pc = "done" /\ ~cancel
        /\ nPaths < MinImages) =>
        (errorLog # << >> /\ files = {})

\* C8: a run that has written an output file has passed every gate: at least
\* 8 decoded images, a keypoint, 2 recorded pairs, 2 poses and 200 points.
C8_FilesOnlyAfterGates ==
    (impl = "RW" /\ files # {}) =>
        /\ nImgs >= MinImages
        /\ SumSeq(feats) >= 1
        /\ Len(matches) >= MinPairs
        /\ Cardinality(DOMAIN poses) >= MinPoses
        /\ nPts >= MinPoints

C8_Witness ==
    /\ impl = "RW" /\ PointCloudFile \in files
    /\ nPts = MinPoints /\ Len(matches) = MinPairs

\* C9: when the mesh cannot be built or a mesh file cannot be written after
\* the point cloud was written, the run still ends as a success: a result and
\* no failure, with the point cloud file in place.
C9_MeshFailureIsNotFatal ==
    (impl \in {"RW", "P3D"} /\ pc = "done" /\ meshFailed
        /\ PointCloudFile \in files) =>
        (Failures = 0 /\ Results = 1)

C11_MatchesMeetMinimum ==
    \A k \in DOMAIN matches : matches[k].n >= minMatches

C11_Witness ==
    /\ impl = "RW" /\ pc = "pose_init"
    /\ Len(matches) >= MinPairs
    /\ \E e \in tried : e \notin MatchKeys

\* C12: for every row the ratio test accepts, the best distance is strictly
\* less than 0.75 times the second-best distance.
C12_AcceptedPassRatio ==
    \A k \in DOMAIN goodRows :
        /\ Len(goodRows[k]) = 2
        /\ 100 * goodRows[k][1] < 75 * goodRows[k][2]

C12_Witness ==
    /\ impl = "RW" /\ pc = "ratio_done"
    /\ Len(goodRows) >= 1
    /\ \E k \in DOMAIN knn :
          /\ Len(knn[k]) = 2 /\ knn[k][2] > 0
          /\ 100 * knn[k][1] = 75 * knn[k][2]

\* distances to the mean of the points, times the number of points
MeanDist(pts) ==
    [i \in DOMAIN pts |-> Abs(Len(pts) * pts[i] - SumSeq(pts))]

\* no retained point is farther from the centre than the 0.98 quantile of
\* the distances d of all the points to it
WithinQuantile(d) ==
    \A i \in kept : 100 * d[i] <= Quantile100(d, 98)

\* C13: after the outlier filter every retained point lies within the 0.98
\* quantile of the distances of the unfiltered points to their centroid (the
\* median or the mean of the points).
C13_RetainedWithinQuantile ==
    (pc = "filtered" /\ Len(cloud) > 0) =>
        (WithinQuantile(RW_Dist2(cloud)) \/ WithinQuantile(MeanDist(cloud)))

\* position of a stage in the pipeline-level state machine, where meshing
\* comes before exporting
StageRank(p) ==
    CASE p = "idle" -> 0
      [] p = "load" -> 1
      [] p = "extract" -> 2
      [] p \in {"match", "pairs"} -> 3
      [] p \in {"pose_init", "pose"} -> 4
      [] p \in {"triangulate", "points_gate"} -> 5
      [] p = "mesh" -> 7
      [] p \in {"write_pc", "write_mesh", "emit"} -> 8
      [] OTHER -> 9

\* position of a step in the order run and _export_outputs take them: the
\* point cloud is written, then the mesh is attempted, then the mesh files
\* are written
StepRank(p) ==
    CASE p = "write_pc" -> 6
      [] p = "mesh" -> 7
      [] p = "write_mesh" -> 8
      [] p = "emit" -> 9
      [] p = "finally" -> 10
      [] p = "done" -> 11
      [] OTHER -> StageRank(p)

C15_ProgressNeverDecreases ==
    [][(impl \in {"RW", "TR", "P3D"}) => progress' >= progress]_vars

C15_Witness ==
    /\ impl = "TR" /\ pc = "done" /\ TR_NPairs >= 2
    /\ progress = 100 /\ Len(resultLog) = 1

\* C16: an image without keypoints gets an empty feature set of its own and
\* does not end the job; the feature error is raised only when no image has
\* any keypoint.
C16_BlankImageIsNotFatal ==
    (impl = "RW") =>
        /\ (pc \notin {"idle", "load", "extract"} /\ raised # "3D Pipeline Hatasi"
               /\ ~RW_TooFewImages(nImgs))
             => Len(feats) = nImgs
        /\ (\E e \in DOMAIN errorLog : errorLog[e] = "Feature Bulunamadi")
             => \A k \in DOMAIN feats : feats[k] = 0

C16_Witness ==
    /\ impl = "RW" /\ pc = "match" /\ errorLog = << >>
    /\ Len(feats) = nImgs
    /\ \E k \in DOMAIN feats : feats[k] = 0

\* the name the fast mode has: "speed" in the combo box of the 3D tab,
\* Mode.FAST = "fast" in the core package
FastMode == IF impl = "RW" THEN Str("speed") ELSE Str("fast")

\* C17: the fast mode selects the binary detector; the other modes select
\* the floating-point detector, or the secondary binary detector when the
\* floating-point one is unavailable.
C17_DetectorFollowsMode ==
    (pc = "chosen") =>
        IF mode = FastMode
        THEN algo \in {"ORB", "orb"}
        ELSE (mode \in {Str("balanced"), Str("quality"), Str("hq")})
             => IF siftOk THEN algo \in {"SIFT", "sift"}
                ELSE algo \in {"AKAZE", "akaze"}

\* the callback calls the notify calls of `log` owe: one for each call whose
\* type had a callback registered, with the title and the message of the call
CallsOwed(log) ==
    LET registered(r) == r.cb # NoCallback
        owed == SelectSeq(log, registered)
    IN  [k \in DOMAIN owed |->
           Event("call", owed[k].cb, owed[k].title, owed[k].message)]

\* the callback calls made so far
CallsMade ==
    LET isCall(e) == e.kind = "call"
    IN  SelectSeq(events, isCall)

\* C18: a registered callback is called with (title, message) on every
\* later notify call of its type, also when notifications and sounds are
\* disabled.
C18_CallbackOnEveryNotify == CallsMade = CallsOwed(sent)

\* the projects created and not deleted
Kept == { q \in made : q.id \notin gone }

C20_RestoreRecreatesAll ==
    restored.ok => restored.seen \subseteq restored.files

\* C20: a restore recreates, at the same relative path, every file the
\* project directory held when the backup was taken, save that a backup made
\* with include_output=False has no file whose path has a part "output".
C20_RestoreRecreatesArchived ==
    restored.ok =>
        \A p \in restored.seen :
            (restored.full \/ ~HasOutputPart(root \o p)) => p \in restored.files

C20_Witness ==
    /\ restored.ok /\ restored.full
    /\ restored.seen = RelPaths /\ restored.files = RelPaths

\* the seconds in the names of the backups the project has
Stamps == { z.stamp : z \in zips }

\* the n largest members of a set of seconds
Latest(S, n) == { t \in S : Cardinality({ u \in S : u > t }) < n }

C23_ReturnsCompletedDownloads ==
    (pc = "download_done") =>
        /\ { dlFiles[k] : k \in DOMAIN dlFiles } =
               { i \in DOMAIN dlTask : dlTask[i] = "ok" }
        /\ \A k, l \in DOMAIN dlFiles : k < l => dlFiles[k] < dlFiles[l]
        /\ \A k \in DOMAIN dlFiles : dlFiles[k] \in dlDisk
        /\ (\A i \in DOMAIN dlTask : dlTask[i] = "ok") =>
               Len(dlFiles) = dlTotal

C23_Witness ==
    /\ pc = "download_done" /\ dlTotal = MaxDownloads
    /\ \A i \in DOMAIN dlTask : dlTask[i] = "ok"
    /\ dlLog[1].i = 2 /\ dlLog[2].i = 0
    /\ Len(dlFiles) = dlTotal

\* C24: at most one job of the queue is in RUNNING status at any time.
C24_OneJobRunning ==
    Cardinality(BP_WithStatus(bp, {"running"})) <= 1

\* C25: when all_completed is emitted no job is PENDING or RUNNING.
C25_AllCompletedMeansNoneBusy ==
    bp.allCompleted.emitted => bp.allCompleted.busy = {}

\* C26: a job cancel() has found running stays CANCELLED and is not
\* reported through job_completed afterwards.
C26_CancelledStaysCancelled ==
    \A i \in bp.cancelled :
        bp.jobs[i].status = "cancelled" /\ i \notin bp.late

\* what a TaskRunnable has emitted so far is a beginning of: started, then
\* one of result and error, then finished
TR_EmittedInOrder ==
    /\ Len(startedLog) <= 1 /\ Len(finishedLog) <= 1
    /\ Len(resultLog) + Len(errorLog) <= 1
    /\ (resultLog # << >> \/ errorLog # << >>) => Len(startedLog) = 1
    /\ (finishedLog # << >>) =>
          (Len(startedLog) = 1 /\ Len(resultLog) + Len(errorLog) = 1)

C28_NotRunningAfterSafeRun ==
    (ctCall = "returned") => ctStatus # "running"

\* C29: once cancel() has been called the status is CANCELLED, whatever
\* pause, resume and safe_run do afterwards.
C29_CancelledIsFinal ==
    ctIsCancelled => ctStatus = "cancelled"

\* C30: the values the progress callback receives never decrease, and
\* when extract_features_parallel returns for N >= 1 images it has
\* received N values, the last of them 100.
C30_ProgressCountsEveryImage ==
    /\ \A k, l \in DOMAIN pfProgress :
          k < l => pfProgress[k] <= pfProgress[l]
    /\ (pc = "parallel_done" /\ pfTotal >= 1) =>
          /\ Len(pfProgress) = pfTotal
          /\ pfProgress[Len(pfProgress)] = 100

=============================================================================
